---- MODULE Spec2Model ----
(***************************************************************************)
(* Reconciliation engine of the Manifest controller: the state machine of  *)
(* ManifestReconciler.Reconcile, the dispatch of OperationRequests over    *)
(* the unbuffered DeployChan to the ManifestWorkerPool, the per-round      *)
(* response collector (ResponseHandlerFunc) and PreparePhase               *)
(* (GetInstallInfos / parseInstallations).                                 *)
(*                                                                         *)
(* One Manifest object lives in the API server.  Every write of the        *)
(* controller goes through the API server with optimistic concurrency: a   *)
(* write succeeds only against the version that was read, so a successful  *)
(* read-modify-write is one atomic step and a failed one changes nothing.  *)
(* The object is created once; its name is not reused after deletion.      *)
(***************************************************************************)
EXTENDS Integers, Sequences, FiniteSets, TLC

VARIABLES
    manifest,       \* the Manifest object stored in the API server
    reconciler,     \* position of the Reconcile call of this Manifest
    workers,        \* position of every goroutine of the worker pool
    collectors,     \* position of every ResponseHandlerFunc goroutine
    cancelled,      \* the manager context is done
    lastOp,         \* the last step taken by the controller (observation)
    rendererCache,  \* the renderer cache: owner -> processor
    peer,           \* a second Manifest with the same cache-key label
    calls,          \* the calls of newOperations in progress
    disk,           \* the on-disk cache of extracted and rendered artifacts
    extractors,     \* the calls of GetPathFromExtractedTarGz in progress
    rendering,      \* the last call of getManifestForChartPath (observation)
    aggregation,    \* a round's responses and the conditions made of them
    operation,      \* a call of InstallChart or UninstallChart and its steps
    ssa,            \* a call of concurrentDefaultSSA.Run and its tasks
    pool,           \* the sizes of the ManifestWorkerPool
    tar             \* a call of writeTarGzContent and the file system it writes

\* what the install pipeline and the pool sizing own
jobVars == <<operation, ssa, pool, tar>>

vars == <<manifest, reconciler, workers, collectors, cancelled, lastOp,
          rendererCache, peer, calls, disk, extractors, rendering, aggregation,
          jobVars>>

\* what the controller's steps leave alone
offController == <<peer, calls, disk, extractors, rendering, aggregation, jobVars>>

(***************************************************************************)
(* Bounds                                                                  *)
(***************************************************************************)
MaxInstalls == 2      \* longest spec.installs list
NumWorkers == 1       \* size of the worker pool (WorkersConcurrentManifests)
MaxRounds == 1        \* collectors alive at the same time
MaxGeneration == 2    \* spec changes made by the user
MaxObjects == 3       \* objects handed to one call of concurrentDefaultSSA.Run
NumCallers == 2       \* goroutines calling newOperations at the same time
MaxCalls == 2         \* calls of newOperations in one run
NumExtractors == 2    \* goroutines extracting artifacts at the same time
MaxEntries == 2       \* entries of a layer archive
MaxNameLen == 3       \* characters of the name of an archive entry
MaxPoolSize == 3      \* largest WorkersConcurrentManifests a pool is created with
MaxPoolCalls == 2     \* calls of SetWorkerPoolSize
MaxStatusWrites == 2  \* rounds whose conditions are written, one tick of time.Now() each

Workers == 1..NumWorkers
Rounds == 1..MaxRounds
Callers == 1..NumCallers
Extractors == 1..NumExtractors

(***************************************************************************)
(* Manifest states (api/v1alpha1) and modes                                *)
(***************************************************************************)
ManifestStateInitial == ""
ManifestStateProcessing == "Processing"
ManifestStateReady == "Ready"
ManifestStateError == "Error"
ManifestStateDeleting == "Deleting"

CreateMode == "Create"
DeletionMode == "Delete"

HelmChartType == "helm-chart"
OciRefType == "oci-ref"
KustomizeType == "kustomize"

(***************************************************************************)
(* spec.installs: the i-th Install is named i; the source types rotate.    *)
(***************************************************************************)
SpecTypeOf(i) ==
    CASE i % 3 = 1 -> HelmChartType
      [] i % 3 = 2 -> OciRefType
      [] OTHER -> KustomizeType

InstallAt(i) == [name |-> i, type |-> SpecTypeOf(i)]

InstallChoices == { [i \in 1..n |-> InstallAt(i)] : n \in 0..MaxInstalls }

(***************************************************************************)
(* PreparePhase                                                            *)
(***************************************************************************)
\* createHelmChartInfo formats "<install.Name>/<chartName>"; the OCI and
\* Kustomize variants use install.Name.  A name is a tuple of its parts.
getChartInfoForInstall(install) ==
    IF install.type = HelmChartType
    THEN [ChartName |-> <<install.name, "chart">>, ReleaseName |-> 0]
    ELSE [ChartName |-> <<install.name>>, ReleaseName |-> 0]

\* The loop of parseInstallations over a heap of one cell (baseDeployInfo):
\* st.cell is the content of *baseDeployInfo, st.out the appended pointers
\* (every pointer is the address of that one cell).
RECURSIVE parseLoop(_, _, _)
parseLoop(installs, i, st) ==
    IF i > Len(installs) THEN st
    ELSE LET chartInfo == [getChartInfoForInstall(installs[i])
                             EXCEPT !.ReleaseName = installs[i].name]
             \* deployInfo := baseDeployInfo ; deployInfo.ChartInfo = chartInfo
             cell == [st.cell EXCEPT !.ChartInfo = chartInfo]
         IN parseLoop(installs, i + 1, [cell |-> cell, out |-> Append(st.out, "base")])

\* a list that starts with the base descriptor itself
parseInstallations_WithBase(installs, baseDeployInfo) ==
    LET st == parseLoop(installs, 1, [cell |-> baseDeployInfo, out |-> <<"base">>])
    IN [i \in 1..Len(st.out) |-> st.cell]

\* The descriptors the caller sees: every returned pointer dereferenced
\* after the loop has finished.
parseInstallations(installs, baseDeployInfo) ==
    LET st == parseLoop(installs, 1, [cell |-> baseDeployInfo, out |-> <<>>])
    IN [i \in 1..Len(st.out) |-> st.cell]

\* GetInstallInfos when none of its steps fails: the base descriptor carries
\* the Manifest as BaseResource.
GetInstallInfos(obj) ==
    parseInstallations(obj.installs,
        [ChartInfo |-> [ChartName |-> <<>>, ReleaseName |-> 0],
         BaseResource |-> [cacheKey |-> obj.cacheKey]])

(***************************************************************************)
(* API server objects                                                      *)
(***************************************************************************)
NotFound ==
    [exists |-> FALSE, deletionTimestamp |-> FALSE, finalizer |-> FALSE,
     state |-> ManifestStateInitial, generation |-> 0, observedGeneration |-> 0,
     installs |-> <<>>, remote |-> FALSE, cacheKey |-> ""]

\* A Manifest as created by the user; cacheKey is the value of its cache-key
\* label, "" when it has none.
NewRemoteManifest(installs, remote, cacheKey) ==
    [exists |-> TRUE, deletionTimestamp |-> FALSE, finalizer |-> FALSE,
     state |-> ManifestStateInitial, generation |-> 1, observedGeneration |-> 0,
     installs |-> installs, remote |-> remote, cacheKey |-> cacheKey]

NewManifest(installs) == NewRemoteManifest(installs, FALSE, "")

\* An object that is being deleted and carries no finalizer is removed.
Stored(obj) ==
    IF obj.deletionTimestamp /\ ~obj.finalizer THEN NotFound ELSE obj

\* SetObservedGeneration that leaves status.observedGeneration as it was
SetObservedGeneration_Stale(obj) == obj

SetObservedGeneration(obj) ==
    [obj EXCEPT !.observedGeneration = obj.generation]

updateManifestStatus(obj, state) ==
    SetObservedGeneration([obj EXCEPT !.state = state])

AddFinalizer(obj) == [obj EXCEPT !.finalizer = TRUE]

RemoveFinalizer(obj) == [obj EXCEPT !.finalizer = FALSE]

(***************************************************************************)
(* Renderer cache and cluster resolution                                   *)
(***************************************************************************)
\* the values of the cache-key label
Owners == {"kyma-1", "kyma-2"}

Namespace == "default"

\* a nil renderSrc
NoRenderer == 0

\* the key of an owner in the cache
OwnerKey(label) == [Name |-> label, Namespace |-> Namespace]

\* the base resources of the calls of newOperations, by name
Resources == {"testBaseResource", "testBaseResource2"}

ResourceKey(name) == [Name |-> name, Namespace |-> Namespace]

\* the renderer cache: a map of processors by owner key and a map of config
\* fingerprints by resource key, both empty at first
EmptyCache ==
    [processor |-> [key \in {} |-> NoRenderer], config |-> [key \in {} |-> 0]]

GetProcessor(cache, key) ==
    IF key \in DOMAIN cache.processor THEN cache.processor[key] ELSE NoRenderer

SetProcessor(cache, key, renderSrc) ==
    [cache EXCEPT !.processor = [k \in DOMAIN @ \cup {key} |->
                                     IF k = key THEN renderSrc ELSE @[k]]]

GetConfig(cache, key) ==
    IF key \in DOMAIN cache.config THEN cache.config[key] ELSE 0

\* the chart flags of a call and their hash (util.CalculateHash), which is
\* never 0 and differs for different flags
ChartFlags == {"value1", "value2"}

CalculateHash(flags) == IF flags = "value1" THEN 1 ELSE 2

LabelNotFoundError == "label not found"

\* util.GetResourceLabel: the value of the label, or the label-not-found
\* error when the resource does not carry it
GetResourceLabel(resource) ==
    IF resource.cacheKey = "" THEN [label |-> "", err |-> LabelNotFoundError]
    ELSE [label |-> resource.cacheKey, err |-> ""]

\* cluster resolution; every error other than "" makes GetInstallInfos fail.
\* The REST config getter is a step of the environment, see prepareOK.
getDestinationConfigAndClient_IgnoresLabelError(obj, cache) ==
    [err |-> "", target |-> IF obj.remote THEN "remote" ELSE "host"]

getDestinationConfigAndClient(obj, cache) ==
    IF ~obj.remote THEN [err |-> "", target |-> "host"]
    ELSE LET kymaOwnerLabel == GetResourceLabel(obj)
             kymaNsName == OwnerKey(kymaOwnerLabel.label)
         IN IF kymaOwnerLabel.err # "" THEN [err |-> kymaOwnerLabel.err, target |-> ""]
            ELSE IF GetProcessor(cache, kymaNsName) # NoRenderer
            THEN [err |-> "", target |-> "processor"]
            ELSE [err |-> "", target |-> "remote"]

\* discoverCacheKey: the label value, empty when the label is missing
discoverCacheKey(resource) ==
    [Name |-> GetResourceLabel(resource).label, Namespace |-> Namespace]

\* the cache is read and written only when one is supplied and the base
\* resource carries the label
UsesCache_WithoutLabelTest(resource, withCache) == withCache

UsesCache(resource, withCache) ==
    withCache /\ discoverCacheKey(resource).Name # ""

\* newOperations run without interruption by the goroutine `by`: the
\* renderSrc of the operations, the cache afterwards, and whether it failed.
\* createOK: getMemCacheClient and getManifestProcessor succeed.
newOperations(resource, withCache, cache, by, createOK) ==
    LET cacheKey == discoverCacheKey(resource)
        cached == IF UsesCache(resource, withCache)
                  THEN GetProcessor(cache, cacheKey) ELSE NoRenderer
    IN IF cached # NoRenderer
       THEN [renderSrc |-> cached, cache |-> cache, err |-> FALSE]
       ELSE IF ~createOK
       THEN [renderSrc |-> NoRenderer, cache |-> cache, err |-> TRUE]
       ELSE [renderSrc |-> by, err |-> FALSE,
             cache |-> IF UsesCache(resource, withCache)
                       THEN SetProcessor(cache, cacheKey, by) ELSE cache]

(***************************************************************************)
(* Goroutine records                                                       *)
(***************************************************************************)
IdleReconciler == [pc |-> "idle", pending |-> <<>>, mode |-> CreateMode, round |-> 0]

NoResponse == [chart |-> <<>>, ready |-> FALSE, err |-> FALSE]

IdleWorker == [pc |-> "idle", round |-> 0, response |-> NoResponse]

ExitedWorker == [IdleWorker EXCEPT !.pc = "exited"]

\* responses counts the responses appended to the collector's list; anyErr and
\* anyNotReady observe whether one of them had an error, resp. ready=false;
\* mode observes the mode of the round's requests, prepared whether the
\* PreparePhase of the round succeeded, and generation the generation of the
\* Manifest that the reconcile of the round read.
FreeCollector ==
    [pc |-> "free", chartCount |-> 0, responses |-> 0,
     errorState |-> FALSE, processing |-> FALSE, mode |-> CreateMode,
     anyErr |-> FALSE, anyNotReady |-> FALSE,
     prepared |-> FALSE, generation |-> 0]

(***************************************************************************)
(* Observation of the last step: which operation it was, the state and the *)
(* deletionTimestamp of the Manifest it read, for a step of a round the    *)
(* round's mode, chartCount and what its collector had read, and for the   *)
(* PreparePhase of a round the error of its cluster resolution.            *)
(***************************************************************************)
NoOp ==
    [op |-> "step", prior |-> ManifestStateInitial, deletion |-> FALSE,
     mode |-> CreateMode, chartCount |-> 0, responses |-> 0,
     anyErr |-> FALSE, anyNotReady |-> FALSE, resolveErr |-> "",
     prepared |-> FALSE, generation |-> 0]

ReconcileOp(op) ==
    [NoOp EXCEPT !.op = op, !.prior = manifest.state,
                 !.deletion = manifest.deletionTimestamp]

RoundOp(op, col) ==
    [op |-> op, prior |-> manifest.state, deletion |-> manifest.deletionTimestamp,
     mode |-> col.mode, chartCount |-> col.chartCount, responses |-> col.responses,
     anyErr |-> col.anyErr, anyNotReady |-> col.anyNotReady, resolveErr |-> "",
     prepared |-> col.prepared, generation |-> col.generation]

\* a caller of newOperations that is not in a call
\* a caller outside newOperations.  nr is the number of its call, touched
\* says that the call read or wrote the cache.
IdleCall ==
    [pc |-> "idle", nr |-> 0, resource |-> [name |-> "", cacheKey |-> ""],
     flags |-> "", withCache |-> FALSE, renderSrc |-> NoRenderer,
     touched |-> FALSE]

\* the input of a call: the base resource, the flags, whether a cache is given
CallInput(call) ==
    [resource |-> call.resource, flags |-> call.flags, withCache |-> call.withCache]

\* no call of newOperations was made.  started counts the calls;
\* setProcessorCount and setConfigCount count the writes of the cache; first is the input of the first call, uniform says that every call
\* had that input, sequential that no two calls overlapped, and keyed that
\* some call had a cache and a labelled base resource.
NoCalls ==
    [of |-> [c \in Callers |-> IdleCall], started |-> 0,
     setProcessorCount |-> 0, setConfigCount |-> 0,
     first |-> CallInput(IdleCall), uniform |-> TRUE, sequential |-> TRUE,
     keyed |-> FALSE]

CacheAtRest ==
    /\ rendererCache = EmptyCache
    /\ peer = NotFound
    /\ calls = NoCalls

\* the image specs of the layers and the static chart paths ("" is no path)
ImageSpecs == {"image-1", "image-2"}

ChartPaths == {"", "./chart"}

\* the on-disk cache: for every image spec whether its directory exists and
\* which entries of the archive were written into it, and for every chart
\* path whether a rendered manifest was persisted under it
EmptyDisk ==
    [charts |-> [i \in ImageSpecs |-> [exists |-> FALSE, entries |-> {}]],
     rendered |-> [p \in ChartPaths |-> FALSE]]

\* an extractor that is not in a call; result is what its last call returned
\* and hitWhileWriting whether that call found the directory while another
\* extractor was writing entries into it
IdleExtractor ==
    [pc |-> "idle", image |-> "", next |-> 0, result |-> "",
     hitWhileWriting |-> FALSE]

NoExtractors == [e \in Extractors |-> IdleExtractor]

\* getManifestForChartPath was not called.  Of the last call: its inputs
\* (the chart path, what the renderer has as provided and as cached manifest,
\* what rendering gives, how a write to the file system ends), the manifest
\* and the error returned, whether the manifest was rendered by this call,
\* whether a write was attempted, and whether a file was there before.
NoRendering ==
    [chartPath |-> "", provided |-> "", cached |-> "", raw |-> "", write |-> "",
     manifest |-> "", err |-> "", rendered |-> FALSE,
     persistAttempted |-> FALSE, persistedBefore |-> FALSE]

DiskAtRest ==
    /\ disk = EmptyDisk
    /\ extractors = NoExtractors
    /\ rendering = NoRendering

\* no round is being aggregated and status.conditions is empty
NoAggregation ==
    [pc |-> "idle", installs |-> <<>>, pending |-> <<>>, responses |-> <<>>,
     conditions |-> <<>>, clock |-> 0]

AggregationAtRest == aggregation = NoAggregation

\* no call of the install pipeline is in progress, the pool has the size
\* it was created with
NoOperation == [pc |-> "idle"]

NoSSA == [pc |-> "idle"]

NoTar == [pc |-> "idle"]

\* NewManifestWorkers: both sizes are workersConcurrentManifests.  The last
\* newSize handed to SetWorkerPoolSize, the number of its calls, the
\* goroutines StartWorkers has started and the position of a request sent
\* on DeployChan are recorded with them.
NewManifestWorkers(workersConcurrentManifests) ==
    [initialSize |-> workersConcurrentManifests,
     size |-> workersConcurrentManifests,
     calls |-> 0, newSize |-> workersConcurrentManifests,
     pc |-> "created", started |-> 0]

JobsAtRest ==
    /\ operation = NoOperation
    /\ ssa = NoSSA
    /\ pool = NewManifestWorkers(NumWorkers)
    /\ tar = NoTar

ControllerStart ==
    /\ reconciler = IdleReconciler
    /\ workers = [w \in Workers |-> IdleWorker]
    /\ collectors = [c \in Rounds |-> FreeCollector]
    /\ cancelled = FALSE
    /\ lastOp = NoOp

Init ==
    /\ manifest \in { NewManifest(installs) : installs \in InstallChoices }
    /\ ControllerStart
    /\ CacheAtRest
    /\ DiskAtRest
    /\ AggregationAtRest
    /\ JobsAtRest

(***************************************************************************)
(* The user and the manager                                                *)
(***************************************************************************)
UserDelete ==
    /\ manifest.exists
    /\ ~manifest.deletionTimestamp
    /\ manifest' = Stored([manifest EXCEPT !.deletionTimestamp = TRUE])
    /\ lastOp' = NoOp
    /\ UNCHANGED <<reconciler, workers, collectors, cancelled, rendererCache, offController>>

UserUpdateSpec ==
    /\ manifest.exists
    /\ manifest.generation < MaxGeneration
    /\ \E installs \in InstallChoices \ {manifest.installs} :
          manifest' = [manifest EXCEPT !.generation = @ + 1, !.installs = installs]
    /\ lastOp' = NoOp
    /\ UNCHANGED <<reconciler, workers, collectors, cancelled, rendererCache, offController>>

Cancel ==
    /\ ~cancelled
    /\ cancelled' = TRUE
    /\ lastOp' = NoOp
    /\ UNCHANGED <<manifest, reconciler, workers, collectors, rendererCache, offController>>

(***************************************************************************)
(* Reconcile                                                               *)
(***************************************************************************)
ReconcileStarts ==
    /\ ~cancelled
    /\ manifest.exists
    /\ reconciler.pc = "idle"

\* a Reconcile without the test of the deletionTimestamp
DeletionNotYetObserved_Never(obj) == FALSE

DeletionNotYetObserved(obj) ==
    obj.deletionTimestamp /\ obj.state # ManifestStateDeleting

\* a finalizer check that never finds the finalizer missing
ContainsFinalizer_Always(obj) == TRUE

ContainsFinalizer(obj) == obj.finalizer

\* Reconcile: deletionTimestamp is set and the state is not yet Deleting
ReconcileDeletion ==
    /\ ReconcileStarts
    /\ DeletionNotYetObserved(manifest)
    /\ manifest' = Stored(updateManifestStatus(manifest, ManifestStateDeleting))
    /\ lastOp' = ReconcileOp("reconcile:deleting")
    /\ UNCHANGED <<reconciler, workers, collectors, cancelled, rendererCache, offController>>

\* Reconcile: check finalizer on native object
ReconcileFinalizer ==
    /\ ReconcileStarts
    /\ ~DeletionNotYetObserved(manifest)
    /\ ~ContainsFinalizer(manifest)
    /\ manifest' = Stored(AddFinalizer(manifest))
    /\ lastOp' = ReconcileOp("reconcile:addFinalizer")
    /\ UNCHANGED <<reconciler, workers, collectors, cancelled, rendererCache, offController>>

\* Reconcile: state handling
StateHandling(state) ==
    /\ ReconcileStarts
    /\ ~DeletionNotYetObserved(manifest)
    /\ ContainsFinalizer(manifest)
    /\ manifest.state = state

HandleInitialState ==
    /\ StateHandling(ManifestStateInitial)
    /\ manifest' = Stored(updateManifestStatus(manifest, ManifestStateProcessing))
    /\ lastOp' = ReconcileOp("reconcile:initial")
    /\ UNCHANGED <<reconciler, workers, collectors, cancelled, rendererCache, offController>>

HandleErrorState ==
    /\ StateHandling(ManifestStateError)
    /\ manifest' = Stored(updateManifestStatus(manifest, ManifestStateProcessing))
    /\ lastOp' = ReconcileOp("reconcile:error")
    /\ UNCHANGED <<reconciler, workers, collectors, cancelled, rendererCache, offController>>

\* the rounds that can be in flight at the same time
LiveRounds == DOMAIN collectors

FreeRounds == { c \in LiveRounds : collectors[c].pc = "free" }

\* a response channel that is not made anew for the round
FirstFree_Reused == CHOOSE c \in LiveRounds : \A d \in LiveRounds : c <= d

FirstFree == CHOOSE c \in FreeRounds : \A d \in FreeRounds : c <= d

OperationRequest(info, mode, round) ==
    [chart |-> info.ChartInfo.ChartName, BaseResource |-> info.BaseResource,
     mode |-> mode, round |-> round]

\* sendJobToInstallChannel up to its first send on DeployChan: the collector
\* is spawned with chartCount, then PreparePhase runs; when it fails the
\* error is returned and nothing else is done.  PreparePhase fails when its
\* cluster resolution fails or when one of its other steps does (prepareOK:
\* the CRDs, the REST config, the configs and the chart infos are obtained).
sendJobToInstallChannel(mode, prepareOK) ==
    /\ FreeRounds # {}
    /\ LET c == FirstFree
           chartCount == Len(manifest.installs)
           clusterInfo == getDestinationConfigAndClient(manifest, rendererCache)
           prepared == prepareOK /\ clusterInfo.err = ""
           deployInfos == GetInstallInfos(manifest)
           col == [FreeCollector EXCEPT !.pc = "reading", !.chartCount = chartCount,
                                        !.mode = mode, !.prepared = prepared,
                                        !.generation = manifest.generation]
       IN /\ collectors' = [collectors EXCEPT ![c] = col]
          /\ IF prepared /\ Len(deployInfos) > 0
             THEN reconciler' = [pc |-> "sending", mode |-> mode, round |-> c,
                                 pending |-> [i \in 1..Len(deployInfos) |->
                                     OperationRequest(deployInfos[i], mode, c)]]
             ELSE reconciler' = IdleReconciler
          /\ lastOp' = [RoundOp(IF prepared THEN "reconcile:enqueue"
                                            ELSE "reconcile:prepareFailed", col)
                           EXCEPT !.resolveErr = clusterInfo.err]
    /\ UNCHANGED <<manifest, workers, cancelled, rendererCache, offController>>

HandleProcessingState(prepareOK) ==
    /\ StateHandling(ManifestStateProcessing)
    /\ sendJobToInstallChannel(CreateMode, prepareOK)

HandleDeletingState(prepareOK) ==
    /\ StateHandling(ManifestStateDeleting)
    /\ sendJobToInstallChannel(DeletionMode, prepareOK)

\* the renderers made by the Reconcile goroutine are told from those of the
\* workers
ByReconciler == NumWorkers + 1

\* HandleReadyState: verify is the result of the first Install whose check
\* is not (ready, nil): "ok" when there is none, "notReady" (ready=false
\* without an error), "notReadyError" (ready=false with an error, which is
\* what consistencyCheck returns for every error of its own), "opsError"
\* (the operations could not be created) or "error" (ready=true with an
\* error).  The test of ready comes before the test of the error.  The
\* operations of the Installs checked are created through the renderer cache.
VerifyResults == {"ok", "notReady", "notReadyError", "opsError", "error"}

\* a Ready state that never sees a new generation
GenerationChanged_Never(obj) == FALSE

\* manifestObj.Generation != manifestObj.Status.ObservedGeneration
GenerationChanged(obj) == obj.generation # obj.observedGeneration

HandleReadyState(prepareOK, verify) ==
    LET clusterInfo == getDestinationConfigAndClient(manifest, rendererCache)
        prepared == prepareOK /\ clusterInfo.err = ""
        deployInfos == GetInstallInfos(manifest)
        ops == newOperations(manifest, TRUE, rendererCache, ByReconciler,
                             verify # "opsError")
    IN
    /\ StateHandling(ManifestStateReady)
    /\ IF GenerationChanged(manifest)
       THEN /\ manifest' = Stored(updateManifestStatus(manifest, ManifestStateProcessing))
            /\ lastOp' = ReconcileOp("reconcile:generation")
            /\ rendererCache' = rendererCache
       ELSE IF ~prepared \/ Len(deployInfos) = 0
       THEN /\ manifest' = manifest
            /\ lastOp' = ReconcileOp("reconcile:nothingToCheck")
            /\ rendererCache' = rendererCache
       ELSE /\ rendererCache' = ops.cache
            /\ IF verify = "ok"
               THEN /\ manifest' = manifest
                    /\ lastOp' = ReconcileOp("reconcile:consistent")
               ELSE IF verify \in {"notReady", "notReadyError"}
               THEN /\ manifest' = Stored(updateManifestStatus(manifest,
                                                 ManifestStateProcessing))
                    /\ lastOp' = [ReconcileOp("reconcile:notReady") EXCEPT
                                     !.anyErr = (verify = "notReadyError"),
                                     !.anyNotReady = TRUE]
               ELSE /\ manifest' = Stored(updateManifestStatus(manifest,
                                                 ManifestStateError))
                    /\ lastOp' = [ReconcileOp("reconcile:verifyError") EXCEPT
                                     !.anyErr = TRUE]
    /\ UNCHANGED <<reconciler, workers, collectors, cancelled, offController>>

\* HandleCharts: the InstallResponse of Install (CreateMode) or Uninstall
\* (DeletionMode).  ops is the result of creating the operations; ready and
\* err are what the operation returned when it was run.
HandleCharts(req, ops, ready, err) ==
    [chart |-> req.chart, ready |-> ~ops.err /\ ready, err |-> ops.err \/ err]

(***************************************************************************)
(* Worker pool                                                             *)
(***************************************************************************)
\* One iteration of a worker of StartWorkers: the receive on the unbuffered
\* DeployChan meets the send of sendJobToInstallChannel, the handler runs,
\* and the worker arrives at the send on the request's ResponseChan.  The
\* handler creates its operations through the renderer cache (createOK: a
\* processor can be constructed).
\* a DeployChan whose send completes while worker w is still busy with a
\* request: the request takes the place of the one not yet answered
StartWorkers_Buffered(w, createOK, ready, err) ==
    /\ reconciler.pc = "sending"
    /\ workers[w].pc # "exited"
    /\ LET deployChart == Head(reconciler.pending)
           ops == newOperations(deployChart.BaseResource, TRUE, rendererCache,
                                w, createOK)
       IN /\ workers' = [workers EXCEPT ![w] =
                 [pc |-> "sending", round |-> deployChart.round,
                  response |-> HandleCharts(deployChart, ops, ready, err)]]
          /\ rendererCache' = ops.cache
    /\ reconciler' = IF Len(reconciler.pending) = 1 THEN IdleReconciler
                     ELSE [reconciler EXCEPT !.pending = Tail(@)]
    /\ lastOp' = NoOp
    /\ UNCHANGED <<manifest, collectors, cancelled, offController>>

StartWorkers(w, createOK, ready, err) ==
    /\ reconciler.pc = "sending"
    /\ workers[w].pc = "idle"
    /\ LET deployChart == Head(reconciler.pending)
           ops == newOperations(deployChart.BaseResource, TRUE, rendererCache,
                                w, createOK)
       IN /\ workers' = [workers EXCEPT ![w] =
                 [pc |-> "sending", round |-> deployChart.round,
                  response |-> HandleCharts(deployChart, ops, ready, err)]]
          /\ rendererCache' = ops.cache
    /\ reconciler' = IF Len(reconciler.pending) = 1 THEN IdleReconciler
                     ELSE [reconciler EXCEPT !.pending = Tail(@)]
    /\ lastOp' = NoOp
    /\ UNCHANGED <<manifest, collectors, cancelled, offController>>

\* case <-ctx.Done() of the worker's select
WorkerExit(w) ==
    /\ cancelled
    /\ workers[w].pc = "idle"
    /\ workers' = [workers EXCEPT ![w] = ExitedWorker]
    /\ lastOp' = NoOp
    /\ UNCHANGED <<manifest, reconciler, collectors, cancelled, rendererCache, offController>>

(***************************************************************************)
(* Response collector (ResponseHandlerFunc)                                *)
(***************************************************************************)
\* a loop that is left at the first response
LoopDone_FirstResponse(col) == col.responses >= 1 \/ col.chartCount = 0

\* the loop with the condition a < chartCount
LoopDone_OneShort(col) == col.responses + 1 >= col.chartCount

\* for a := 1; a <= chartCount; a++
LoopDone(col) == col.responses >= col.chartCount

\* a receive that takes the response of any worker, whatever channel the
\* worker sends on
CollectorReceive_AnyChannel(c, w) ==
    /\ collectors[c].pc = "reading"
    /\ ~LoopDone(collectors[c])
    /\ workers[w].pc = "sending"
    /\ LET response == workers[w].response
       IN collectors' = [collectors EXCEPT
              ![c].responses = @ + 1,
              ![c].errorState = @ \/ response.err,
              ![c].processing = @ \/ (~response.err /\ ~response.ready),
              ![c].anyErr = @ \/ response.err,
              ![c].anyNotReady = @ \/ ~response.ready]
    /\ workers' = [workers EXCEPT ![w] = IdleWorker]
    /\ lastOp' = NoOp
    /\ UNCHANGED <<manifest, reconciler, cancelled, rendererCache, offController>>

\* case response := <-responseChan, meeting the send of worker w
CollectorReceive(c, w) ==
    /\ collectors[c].pc = "reading"
    /\ ~LoopDone(collectors[c])
    /\ workers[w].pc = "sending"
    /\ workers[w].round = c
    /\ LET response == workers[w].response
       IN collectors' = [collectors EXCEPT
              ![c].responses = @ + 1,
              ![c].errorState = @ \/ response.err,
              ![c].processing = @ \/ (~response.err /\ ~response.ready),
              ![c].anyErr = @ \/ response.err,
              ![c].anyNotReady = @ \/ ~response.ready]
    /\ workers' = [workers EXCEPT ![w] = IdleWorker]
    /\ lastOp' = NoOp
    /\ UNCHANGED <<manifest, reconciler, cancelled, rendererCache, offController>>

\* case <-ctx.Done() of the collector's select
CollectorAbort(c) ==
    /\ cancelled
    /\ collectors[c].pc = "reading"
    /\ ~LoopDone(collectors[c])
    /\ collectors' = [collectors EXCEPT ![c] = FreeCollector]
    /\ lastOp' = RoundOp("collector:abort", collectors[c])
    /\ UNCHANGED <<manifest, reconciler, workers, cancelled, rendererCache, offController>>

\* the error flag left out of the decision
setProcessedState_ErrorIgnored(errorState, processing, obj) ==
    IF ~obj.deletionTimestamp
    THEN (IF processing THEN ManifestStateProcessing ELSE ManifestStateReady)
    ELSE ManifestStateDeleting

\* the deletion test placed before the error test
setProcessedState_DeletingFirst(errorState, processing, obj) ==
    IF obj.deletionTimestamp THEN ManifestStateDeleting
    ELSE IF errorState THEN ManifestStateError
    ELSE IF processing THEN ManifestStateProcessing ELSE ManifestStateReady

\* without the deletionTimestamp test
setProcessedState_NoDeletionTest(errorState, processing, obj) ==
    IF errorState THEN ManifestStateError
    ELSE IF processing THEN ManifestStateProcessing ELSE ManifestStateReady

\* the two branches of the processing test exchanged
setProcessedState_Swapped(errorState, processing, obj) ==
    IF errorState THEN ManifestStateError
    ELSE IF ~obj.deletionTimestamp
         THEN (IF processing THEN ManifestStateReady ELSE ManifestStateProcessing)
         ELSE ManifestStateDeleting

setProcessedState(errorState, processing, obj) ==
    IF errorState THEN ManifestStateError
    ELSE IF ~obj.deletionTimestamp
         THEN (IF processing THEN ManifestStateProcessing ELSE ManifestStateReady)
         ELSE ManifestStateDeleting

\* handle deletion if no previous error occurred
DeletionCompleted(errorState, processing, obj) ==
    ~errorState /\ obj.deletionTimestamp /\ ~processing

\* a write request that does not look at its context
RequestWithContext_Ignored(ok) == ok

\* r.Update(ctx, ...) and r.Status().Update(ctx, ...): a write request made
\* with a cancelled context fails.
RequestWithContext(ok) == ok /\ ~cancelled

\* ResponseHandlerFunc after its loop.  getOK, updateOK and statusOK say
\* whether r.Get, the update that removes the finalizer and the status
\* update succeed; the loop is the only place that looks at ctx.Done().
CollectorFinish(c, getOK, updateOK, statusOK) ==
    /\ collectors[c].pc = "reading"
    /\ LoopDone(collectors[c])
    /\ LET col == collectors[c]
           found == getOK /\ manifest.exists
           latestManifestObj == manifest
           remove == found /\ DeletionCompleted(col.errorState, col.processing,
                                                latestManifestObj)
           removed == remove /\ RequestWithContext(updateOK)
           errorState == col.errorState \/ (remove /\ ~removed)
           written == found /\ ~removed /\ RequestWithContext(statusOK)
       IN /\ manifest' =
                 IF removed THEN Stored(RemoveFinalizer(latestManifestObj))
                 ELSE IF written
                 THEN Stored(updateManifestStatus(latestManifestObj,
                          setProcessedState(errorState, col.processing, latestManifestObj)))
                 ELSE manifest
          /\ lastOp' =
                 IF removed THEN RoundOp("collector:finalizerRemoved", col)
                 ELSE IF written /\ remove THEN RoundOp("collector:removeFailedStatus", col)
                 ELSE IF written THEN RoundOp("collector:status", col)
                 ELSE RoundOp("collector:noWrite", col)
    /\ collectors' = [collectors EXCEPT ![c] = FreeCollector]
    /\ UNCHANGED <<reconciler, workers, cancelled, rendererCache, offController>>

(***************************************************************************)
(* Specifications                                                          *)
(***************************************************************************)
\* The controller while the manager context is live.
Next ==
    \/ UserDelete
    \/ UserUpdateSpec
    \/ ReconcileDeletion
    \/ ReconcileFinalizer
    \/ HandleInitialState
    \/ HandleErrorState
    \/ \E prepareOK \in BOOLEAN : HandleProcessingState(prepareOK)
    \/ \E prepareOK \in BOOLEAN : HandleDeletingState(prepareOK)
    \/ \E prepareOK \in BOOLEAN, verify \in VerifyResults :
          HandleReadyState(prepareOK, verify)
    \/ \E w \in Workers, createOK \in BOOLEAN, ready \in BOOLEAN, err \in BOOLEAN :
          StartWorkers(w, createOK, ready, err)
    \/ \E c \in Rounds, w \in Workers : CollectorReceive(c, w)
    \/ \E c \in Rounds, getOK \in BOOLEAN, updateOK \in BOOLEAN, statusOK \in BOOLEAN :
          CollectorFinish(c, getOK, updateOK, statusOK)

Spec == Init /\ [][Next]_vars

\* The controller while the context is live, with every goroutine of the
\* pool and of the rounds scheduled: a worker takes a request that is being
\* sent, a collector takes a response that is being sent, a collector that
\* left its loop finishes.  PreparePhase, the jobs and the API requests may
\* fail.
RoundFairness ==
    /\ \A w \in Workers :
          WF_vars(\E createOK \in BOOLEAN, ready \in BOOLEAN, err \in BOOLEAN :
                     StartWorkers(w, createOK, ready, err))
    /\ \A c \in Rounds :
          /\ WF_vars(\E w \in Workers : CollectorReceive(c, w))
          /\ WF_vars(\E getOK \in BOOLEAN, updateOK \in BOOLEAN,
                        statusOK \in BOOLEAN :
                          CollectorFinish(c, getOK, updateOK, statusOK))

RoundFairSpec == Init /\ [][Next]_vars /\ RoundFairness

\* The controller with one more round in flight: a requeue of a Manifest that
\* is still Processing or Deleting starts a round next to the one whose
\* collector has not finished.
ConcurrentInit ==
    /\ manifest \in { NewManifest(installs) : installs \in InstallChoices }
    /\ reconciler = IdleReconciler
    /\ workers = [w \in Workers |-> IdleWorker]
    /\ collectors = [c \in 1..(MaxRounds + 1) |-> FreeCollector]
    /\ cancelled = FALSE
    /\ lastOp = NoOp
    /\ CacheAtRest
    /\ DiskAtRest
    /\ AggregationAtRest
    /\ JobsAtRest

ConcurrentNext ==
    \/ Next
    \/ \E w \in Workers : CollectorReceive(MaxRounds + 1, w)
    \/ \E getOK \in BOOLEAN, updateOK \in BOOLEAN, statusOK \in BOOLEAN :
          CollectorFinish(MaxRounds + 1, getOK, updateOK, statusOK)

ConcurrentSpec == ConcurrentInit /\ [][ConcurrentNext]_vars

\* The rounds in flight together, every goroutine of the pool and of the
\* rounds scheduled.
ConcurrentFairness ==
    /\ RoundFairness
    /\ WF_vars(\E w \in Workers : CollectorReceive(MaxRounds + 1, w))
    /\ WF_vars(\E getOK \in BOOLEAN, updateOK \in BOOLEAN, statusOK \in BOOLEAN :
                  CollectorFinish(MaxRounds + 1, getOK, updateOK, statusOK))

ConcurrentFairSpec == ConcurrentInit /\ [][ConcurrentNext]_vars /\ ConcurrentFairness

\* The controller while the manager shuts down: the context is cancelled, the
\* workers and the collectors leave their select on ctx.Done().
NextShutdown ==
    \/ Next
    \/ Cancel
    \/ \E w \in Workers : WorkerExit(w)
    \/ \E c \in Rounds : CollectorAbort(c)

ShutdownSpec == Init /\ [][NextShutdown]_vars

\* The shutdown with every goroutine of the pool and of the rounds scheduled:
\* a worker or a collector whose select has a ready case takes one, a
\* collector that left its loop finishes.
ShutdownFairness ==
    /\ \A w \in Workers : WF_vars(WorkerExit(w))
    /\ \A c \in Rounds : WF_vars(CollectorAbort(c))
    /\ WF_vars(\E c \in Rounds, w \in Workers : CollectorReceive(c, w))
    /\ WF_vars(\E c \in Rounds, getOK \in BOOLEAN, updateOK \in BOOLEAN,
                  statusOK \in BOOLEAN : CollectorFinish(c, getOK, updateOK, statusOK))

ShutdownFairSpec == Init /\ [][NextShutdown]_vars /\ ShutdownFairness

\* Under the conditions of the happy path: PreparePhase succeeds, every job
\* returns (ready, nil), every API request succeeds; the user may still change
\* the spec and delete the Manifest (the state Error is then never written, so
\* HandleErrorState has no part).  The controller requeues a Manifest for as
\* long as it exists, and every goroutine that can run is scheduled.
NextFair ==
    \/ UserDelete
    \/ UserUpdateSpec
    \/ ReconcileDeletion
    \/ ReconcileFinalizer
    \/ HandleInitialState
    \/ HandleProcessingState(TRUE)
    \/ HandleDeletingState(TRUE)
    \/ HandleReadyState(TRUE, "ok")
    \/ \E w \in Workers : StartWorkers(w, TRUE, TRUE, FALSE)
    \/ \E c \in Rounds, w \in Workers : CollectorReceive(c, w)
    \/ \E c \in Rounds : CollectorFinish(c, TRUE, TRUE, TRUE)

Fairness ==
    /\ WF_vars(ReconcileDeletion)
    /\ WF_vars(ReconcileFinalizer)
    /\ WF_vars(HandleInitialState)
    /\ WF_vars(HandleProcessingState(TRUE))
    /\ WF_vars(HandleDeletingState(TRUE))
    /\ WF_vars(HandleReadyState(TRUE, "ok"))
    /\ WF_vars(\E w \in Workers : StartWorkers(w, TRUE, TRUE, FALSE))
    /\ WF_vars(\E c \in Rounds, w \in Workers : CollectorReceive(c, w))
    /\ WF_vars(\E c \in Rounds : CollectorFinish(c, TRUE, TRUE, TRUE))

FairSpec == Init /\ [][NextFair]_vars /\ Fairness

(***************************************************************************)
(* newOperations, statement by statement, called by concurrent jobs        *)
(***************************************************************************)
InCall(call) == call.pc \in {"called", "creating"}

\* InstallChart, UninstallChart or ConsistencyCheck enters newOperations.
\* The callers of one process pass the same cache, or all pass none; they
\* are numbered in the order of their first calls.
CallNewOperations(c, name, label, flags, withCache) ==
    LET call == [pc |-> "called", nr |-> calls.started + 1,
                 resource |-> [name |-> name, cacheKey |-> label],
                 flags |-> flags, withCache |-> withCache,
                 renderSrc |-> NoRenderer, touched |-> FALSE]
    IN /\ calls.started < MaxCalls
       /\ ~InCall(calls.of[c])
       /\ \A d \in Callers : d < c => calls.of[d].pc # "idle"
       /\ calls.started > 0 => withCache = calls.first.withCache
       /\ calls' = [calls EXCEPT
             !.of[c] = call,
             !.started = @ + 1,
             !.first = IF calls.started = 0 THEN CallInput(call) ELSE @,
             !.uniform = @ /\ (calls.started = 0 \/ CallInput(call) = calls.first),
             !.sequential = @ /\ \A d \in Callers : ~InCall(calls.of[d]),
             !.keyed = @ \/ (withCache /\ label # "")]
       /\ UNCHANGED <<manifest, reconciler, workers, collectors, cancelled, lastOp, jobVars,
                      rendererCache, peer, disk, extractors, rendering, aggregation>>

\* cacheKey := discoverCacheKey(...); renderSrc = cache.Get(cacheKey) when a
\* cache is given and the key has a name
NewOperationsGet(c) ==
    LET call == calls.of[c]
        uses == UsesCache(call.resource, call.withCache)
        renderSrc == IF uses
                     THEN GetProcessor(rendererCache, discoverCacheKey(call.resource))
                     ELSE NoRenderer
    IN /\ call.pc = "called"
       /\ calls' = [calls EXCEPT
             !.of[c] = [call EXCEPT
                 !.pc = IF renderSrc # NoRenderer THEN "done" ELSE "creating",
                 !.renderSrc = renderSrc,
                 !.touched = @ \/ uses]]
       /\ UNCHANGED <<manifest, reconciler, workers, collectors, cancelled, lastOp, jobVars,
                      rendererCache, peer, disk, extractors, rendering, aggregation>>

\* the miss branch: getMemCacheClient and getManifestProcessor make a new
\* renderer (createOK) and cache.Set stores it when a cache is given and the
\* key has a name.  No fingerprint of the flags is stored.
NewOperationsCreate(c, createOK) ==
    LET call == calls.of[c]
        uses == UsesCache(call.resource, call.withCache)
    IN /\ call.pc = "creating"
       /\ IF ~createOK
          THEN /\ calls' = [calls EXCEPT !.of[c].pc = "failed"]
               /\ UNCHANGED rendererCache
          ELSE /\ calls' = [calls EXCEPT
                     !.of[c] = [call EXCEPT !.pc = "done",
                                            !.renderSrc = call.nr,
                                            !.touched = @ \/ uses],
                     !.setProcessorCount = IF uses THEN @ + 1 ELSE @]
               /\ rendererCache' =
                     IF uses
                     THEN SetProcessor(rendererCache,
                                       discoverCacheKey(call.resource), call.nr)
                     ELSE rendererCache
       /\ UNCHANGED <<manifest, reconciler, workers, collectors, cancelled, lastOp, jobVars,
                      peer, disk, extractors, rendering, aggregation>>

CacheInit ==
    /\ manifest = NotFound
    /\ ControllerStart
    /\ CacheAtRest
    /\ DiskAtRest
    /\ AggregationAtRest
    /\ JobsAtRest

CacheNext ==
    \/ \E c \in Callers, name \in Resources, label \in {""} \cup Owners,
          flags \in ChartFlags, withCache \in BOOLEAN :
            CallNewOperations(c, name, label, flags, withCache)
    \/ \E c \in Callers : NewOperationsGet(c)
    \/ \E c \in Callers, createOK \in BOOLEAN : NewOperationsCreate(c, createOK)

CacheSpec == CacheInit /\ [][CacheNext]_vars

(***************************************************************************)
(* Extraction of tar+gz layers into the on-disk cache                      *)
(***************************************************************************)
\* the entries of the archive of a layer
Entries == 1..MaxEntries

Returned(e, result) ==
    [IdleExtractor EXCEPT !.image = extractors[e].image, !.result = result]

Writing(image) ==
    \E e \in Extractors :
        extractors[e].pc = "writing" /\ extractors[e].image = image

\* os.Open(installPath): another error than not-exist fails the call (openOK
\* is FALSE), an existing directory is returned as the chart path, otherwise
\* the layer is pulled
GetPathFromExtractedTarGz(e, imageSpec, openOK) ==
    /\ extractors[e].pc = "idle"
    /\ extractors' = [extractors EXCEPT ![e] =
          IF ~openOK
          THEN [IdleExtractor EXCEPT !.image = imageSpec, !.result = "openFailed"]
          ELSE IF disk.charts[imageSpec].exists
          THEN [IdleExtractor EXCEPT !.image = imageSpec, !.result = "hit",
                                     !.hitWhileWriting = Writing(imageSpec)]
          ELSE [IdleExtractor EXCEPT !.image = imageSpec, !.pc = "pulling"]]
    /\ UNCHANGED <<manifest, reconciler, workers, collectors, cancelled, lastOp, jobVars,
                   rendererCache, peer, calls, disk, rendering, aggregation>>

\* pullLayer, layer.Compressed and gzip.NewReader: a failure returns the error
pullLayer(e, pullOK) ==
    /\ extractors[e].pc = "pulling"
    /\ extractors' = [extractors EXCEPT ![e] =
          IF pullOK THEN [@ EXCEPT !.pc = "mkdir"] ELSE Returned(e, "pullFailed")]
    /\ UNCHANGED <<manifest, reconciler, workers, collectors, cancelled, lastOp, jobVars,
                   rendererCache, peer, calls, disk, rendering, aggregation>>

\* writeTarGzContent: os.MkdirAll(installPath) comes first
writeTarGzContent(e, mkdirOK) ==
    LET image == extractors[e].image
    IN /\ extractors[e].pc = "mkdir"
       /\ IF mkdirOK
          THEN /\ extractors' = [extractors EXCEPT ![e].pc = "writing", ![e].next = 1]
               /\ disk' = [disk EXCEPT !.charts[image].exists = TRUE]
          ELSE /\ extractors' = [extractors EXCEPT ![e] = Returned(e, "mkdirFailed")]
               /\ UNCHANGED disk
       /\ UNCHANGED <<manifest, reconciler, workers, collectors, cancelled, lastOp, jobVars,
                      rendererCache, peer, calls, rendering, aggregation>>

\* one turn of the loop of writeTarGzContent: tarReader.Next() returns EOF
\* after the last entry, or fails ("readFailed"), or the entry is written by
\* handleExtractedHeaderFile, which may fail ("writeFailed").  Every error is
\* returned as it is.
handleExtractedHeaderFile(e, outcome) ==
    LET image == extractors[e].image
        next == extractors[e].next
    IN /\ extractors[e].pc = "writing"
       /\ IF next > MaxEntries
          THEN /\ extractors' = [extractors EXCEPT ![e] = Returned(e, "extracted")]
               /\ UNCHANGED disk
          ELSE IF outcome # "ok"
          THEN /\ extractors' = [extractors EXCEPT ![e] = Returned(e, outcome)]
               /\ UNCHANGED disk
          ELSE /\ extractors' = [extractors EXCEPT ![e].next = next + 1]
               /\ disk' = [disk EXCEPT !.charts[image].entries = @ \cup {next}]
       /\ UNCHANGED <<manifest, reconciler, workers, collectors, cancelled, lastOp, jobVars,
                      rendererCache, peer, calls, rendering, aggregation>>

ExtractInit ==
    /\ manifest = NotFound
    /\ ControllerStart
    /\ CacheAtRest
    /\ DiskAtRest
    /\ AggregationAtRest
    /\ JobsAtRest

ExtractNext ==
    \/ \E e \in Extractors, imageSpec \in ImageSpecs, openOK \in BOOLEAN :
          GetPathFromExtractedTarGz(e, imageSpec, openOK)
    \/ \E e \in Extractors, pullOK \in BOOLEAN : pullLayer(e, pullOK)
    \/ \E e \in Extractors, mkdirOK \in BOOLEAN : writeTarGzContent(e, mkdirOK)
    \/ \E e \in Extractors, outcome \in {"ok", "readFailed", "writeFailed"} :
          handleExtractedHeaderFile(e, outcome)

ExtractSpec == ExtractInit /\ [][ExtractNext]_vars

(***************************************************************************)
(* Rendering a manifest and persisting it under the chart path             *)
(***************************************************************************)
PermissionError == "permission denied"

\* what a source of manifests returns: nothing, a manifest or an error
ManifestResults == {"", "manifest", "error"}

\* util.WriteToFile: the error returned and whether the file was written
WriteToFile(write) ==
    [err |-> IF write = "ok" THEN ""
             ELSE IF write = "permission" THEN PermissionError
             ELSE "write failed",
     written |-> write = "ok"]

\* a permission error of the write fails the call like any other error
getManifestForChartPath_PermissionFails(chartPath, provided, cached, raw, write) ==
    IF provided # "" \/ cached # "" \/ raw = "error" \/ chartPath = ""
    THEN [manifest |-> IF "error" \in {provided, cached, raw} THEN "" ELSE "manifest",
          err |-> IF "error" \in {provided, cached, raw} THEN "error" ELSE "",
          rendered |-> FALSE, attempted |-> FALSE, written |-> FALSE]
    ELSE [manifest |-> "manifest", err |-> WriteToFile(write).err,
          rendered |-> TRUE, attempted |-> TRUE,
          written |-> WriteToFile(write).written]

\* getManifestForChartPath: 1. the provided manifest, 2. the cached manifest,
\* 3. the rendered manifest, 4. persisted only if a chart path was passed; a
\* permission error of the write is logged, any other is returned.
getManifestForChartPath(chartPath, provided, cached, raw, write) ==
    LET none == [manifest |-> "", err |-> "error", rendered |-> FALSE,
                 attempted |-> FALSE, written |-> FALSE]
    IN IF provided = "error" THEN none
       ELSE IF provided # "" THEN [none EXCEPT !.manifest = provided, !.err = ""]
       ELSE IF cached = "error" THEN none
       ELSE IF cached # "" THEN [none EXCEPT !.manifest = cached, !.err = ""]
       ELSE IF raw = "error" THEN none
       ELSE IF chartPath = ""
       THEN [none EXCEPT !.manifest = raw, !.err = "", !.rendered = TRUE]
       ELSE LET file == WriteToFile(write)
            IN [manifest |-> raw,
                err |-> IF file.err # "" /\ file.err # PermissionError
                        THEN file.err ELSE "",
                rendered |-> TRUE, attempted |-> TRUE, written |-> file.written]

\* a job asks for the manifest of a chart
RenderManifest(chartPath, provided, cached, raw, write) ==
    LET got == getManifestForChartPath(chartPath, provided, cached, raw, write)
    IN /\ rendering' =
             [chartPath |-> chartPath, provided |-> provided, cached |-> cached,
              raw |-> raw, write |-> write,
              manifest |-> got.manifest, err |-> got.err,
              rendered |-> got.rendered, persistAttempted |-> got.attempted,
              persistedBefore |-> disk.rendered[chartPath]]
       /\ disk' = [disk EXCEPT !.rendered[chartPath] = @ \/ got.written]
       /\ UNCHANGED <<manifest, reconciler, workers, collectors, cancelled, lastOp, jobVars,
                      rendererCache, peer, calls, extractors, aggregation>>

RenderInit ==
    /\ manifest = NotFound
    /\ ControllerStart
    /\ CacheAtRest
    /\ DiskAtRest
    /\ AggregationAtRest
    /\ JobsAtRest

RenderNext ==
    \E chartPath \in ChartPaths, provided \in ManifestResults,
       cached \in ManifestResults, raw \in {"manifest", "error"},
       write \in {"ok", "permission", "other"} :
        RenderManifest(chartPath, provided, cached, raw, write)

RenderSpec == RenderInit /\ [][RenderNext]_vars

(***************************************************************************)
(* status.conditions written by the collector of a round                   *)
(***************************************************************************)
ManifestKind == "Manifest"
ConditionTypeReady == "Ready"
ConditionStatusTrue == "True"
ConditionStatusFalse == "False"
ConditionStatusUnknown == "Unknown"

\* the errors a job returns (the empty text is nil)
JobErrors == {"", "install failed", "resources not ready in time"}

\* the response HandleCharts returns for a request, with the job's error
InstallResponse(req, ready, err) ==
    [ChartName |-> req.chart, Ready |-> ready /\ err = "", Err |-> err]

\* getReadyConditionForComponent: the index of the first Ready condition
\* whose reason is installName, or 0
getReadyConditionForComponent(conditions, installName) ==
    LET found == { i \in 1..Len(conditions) :
                     /\ conditions[i].Type = ConditionTypeReady
                     /\ conditions[i].Reason = installName }
    IN IF found = {} THEN 0 ELSE CHOOSE i \in found : \A j \in found : i <= j

AddReadyConditionForObjects_AlwaysAppended(conditions, chartName, conditionStatus, message, now) ==
    Append(conditions, [Type |-> ConditionTypeReady, Reason |-> chartName,
                        Status |-> conditionStatus, Message |-> message,
                        LastTransitionTime |-> now])

\* AddReadyConditionForObjects for one install item: the condition is
\* appended when it is missing, then its transition time (now is what
\* time.Now() returns), message and status are set and the condition is
\* stored at the first Ready condition of its reason
AddReadyConditionForObjects(conditions, chartName, conditionStatus, message, now) ==
    LET index == getReadyConditionForComponent(conditions, chartName)
        condition == [Type |-> ConditionTypeReady, Reason |-> chartName,
                      Status |-> conditionStatus, Message |-> message,
                      LastTransitionTime |-> now]
    IN IF index = 0 THEN Append(conditions, condition)
       ELSE [conditions EXCEPT ![index] = condition]

\* AddReadyConditionForResponses: the message of a response is one of three
\* fixed texts; a message is the tuple of its parts
RECURSIVE AddReadyConditionForResponses(_, _, _)
AddReadyConditionForResponses(responses, conditions, now) ==
    IF responses = <<>> THEN conditions
    ELSE LET response == Head(responses)
             status == IF response.Err # "" THEN ConditionStatusFalse
                       ELSE IF ~response.Ready THEN ConditionStatusUnknown
                       ELSE ConditionStatusTrue
             message == IF response.Err # "" THEN <<"installation error">>
                        ELSE IF ~response.Ready THEN <<"installation processing">>
                        ELSE <<"installation successful">>
         IN AddReadyConditionForResponses(Tail(responses),
                AddReadyConditionForObjects(conditions, response.ChartName,
                                            status, message, now),
                now)

\* the condition of the Manifest itself, written by updateManifestStatus
\* with the message of setProcessedState.  Its reason is the kind, which is
\* no name of an Install: the part of the install name is 0.
ManifestStatusCondition(conditions, state, now) ==
    AddReadyConditionForObjects(conditions, <<0, ManifestKind>>,
        IF state = ManifestStateReady THEN ConditionStatusTrue
        ELSE IF state = ManifestStateInitial THEN ConditionStatusUnknown
        ELSE ConditionStatusFalse,
        <<ManifestKind, "in", state, "state">>, now)

\* errorState and processing as the loop of ResponseHandlerFunc sets them
HasError(responses) ==
    \E i \in 1..Len(responses) : responses[i].Err # ""

NotReady(responses) ==
    \E i \in 1..Len(responses) : responses[i].Err = "" /\ ~responses[i].Ready

\* a round starts for a Manifest with these Installs: PreparePhase gives the
\* requests, the conditions of earlier rounds stay in the status
AggregationStart(installs) ==
    LET deployInfos == GetInstallInfos(NewManifest(installs))
    IN /\ aggregation.pc # "collecting"
       /\ aggregation.clock < MaxStatusWrites
       /\ aggregation' = [aggregation EXCEPT
             !.pc = "collecting",
             !.installs = installs,
             !.pending = [i \in 1..Len(deployInfos) |->
                            OperationRequest(deployInfos[i], CreateMode, 1)],
             !.responses = <<>>]
       /\ UNCHANGED <<manifest, reconciler, workers, collectors, cancelled, lastOp, jobVars,
                      rendererCache, peer, calls, disk, extractors, rendering>>

\* a worker handles the next request and the collector appends the response
AggregationResponse(ready, err) ==
    /\ aggregation.pc = "collecting"
    /\ aggregation.pending # <<>>
    /\ aggregation' = [aggregation EXCEPT
          !.pending = Tail(@),
          !.responses = Append(@, InstallResponse(Head(aggregation.pending),
                                                  ready, err))]
    /\ UNCHANGED <<manifest, reconciler, workers, collectors, cancelled, lastOp, jobVars,
                   rendererCache, peer, calls, disk, extractors, rendering>>

\* ResponseHandlerFunc after its loop, for a Manifest that is not being
\* deleted: the conditions of the responses, then the end state with the
\* condition of the Manifest
AggregationFinish ==
    LET errorState == HasError(aggregation.responses)
        processing == NotReady(aggregation.responses)
        endState == setProcessedState(errorState, processing,
                                      NewManifest(aggregation.installs))
    IN /\ aggregation.pc = "collecting"
       /\ aggregation.pending = <<>>
       /\ aggregation' = [aggregation EXCEPT
             !.pc = "written",
             !.clock = @ + 1,
             !.conditions = ManifestStatusCondition(
                 AddReadyConditionForResponses(aggregation.responses, @,
                                               aggregation.clock + 1),
                 endState, aggregation.clock + 1)]
       /\ UNCHANGED <<manifest, reconciler, workers, collectors, cancelled, lastOp, jobVars,
                      rendererCache, peer, calls, disk, extractors, rendering>>

AggregateInit ==
    /\ manifest = NotFound
    /\ ControllerStart
    /\ CacheAtRest
    /\ DiskAtRest
    /\ AggregationAtRest
    /\ JobsAtRest

AggregateNext ==
    \/ \E installs \in InstallChoices : AggregationStart(installs)
    \/ \E ready \in BOOLEAN, err \in JobErrors : AggregationResponse(ready, err)
    \/ AggregationFinish

AggregateSpec == AggregateInit /\ [][AggregateNext]_vars

(***************************************************************************)
(* Remote Manifests                                                        *)
(***************************************************************************)
\* Reconcile of the second Manifest, one with the cache-key label and no
\* Installs: the finalizer, then Processing, then a round with chartCount 0,
\* whose PreparePhase resolves the cluster and returns no job and whose
\* collector reads nothing and writes the end state.
PeerReconcile ==
    /\ ~cancelled
    /\ peer.exists
    /\ peer.state # ManifestStateReady
    /\ peer' =
         IF ~ContainsFinalizer(peer) THEN Stored(AddFinalizer(peer))
         ELSE IF peer.state = ManifestStateInitial
         THEN Stored(updateManifestStatus(peer, ManifestStateProcessing))
         ELSE IF getDestinationConfigAndClient(peer, rendererCache).err = ""
                 /\ Len(GetInstallInfos(peer)) > 0
         THEN peer
         ELSE Stored(updateManifestStatus(peer, setProcessedState(FALSE, FALSE, peer)))
    /\ UNCHANGED <<manifest, reconciler, workers, collectors, cancelled, lastOp, jobVars,
                   rendererCache, calls, disk, extractors, rendering, aggregation>>

\* a remote Manifest, with or without the cache-key label, next to a second
\* remote Manifest of the owner "kyma-1" that has no Installs
RemoteInit ==
    /\ manifest \in { NewRemoteManifest(installs, TRUE, label) :
                         installs \in InstallChoices, label \in {"", "kyma-1"} }
    /\ ControllerStart
    /\ rendererCache = EmptyCache
    /\ peer = NewRemoteManifest(<<>>, TRUE, "kyma-1")
    /\ calls = NoCalls
    /\ DiskAtRest
    /\ AggregationAtRest
    /\ JobsAtRest

\* The happy path for Manifests whose spec is not changed: every step of
\* PreparePhase other than the cluster resolution succeeds, every job returns
\* (ready, nil), every API request succeeds.
RemoteNext ==
    \/ UserDelete
    \/ ReconcileDeletion
    \/ ReconcileFinalizer
    \/ HandleInitialState
    \/ HandleProcessingState(TRUE)
    \/ HandleDeletingState(TRUE)
    \/ HandleReadyState(TRUE, "ok")
    \/ \E w \in Workers : StartWorkers(w, TRUE, TRUE, FALSE)
    \/ \E c \in Rounds, w \in Workers : CollectorReceive(c, w)
    \/ \E c \in Rounds : CollectorFinish(c, TRUE, TRUE, TRUE)
    \/ PeerReconcile

RemoteSpec ==
    RemoteInit /\ [][RemoteNext]_vars /\ Fairness /\ WF_vars(PeerReconcile)

(***************************************************************************)
(* Install pipeline (operations.install, operations.uninstall)             *)
(***************************************************************************)
\* What the target cluster and the renderer answer during one call: the
\* outcome of CheckCRDs and CheckCRs with create=true, of
\* getManifestForChartPath, of renderSrc.Install, of RemoveCRs (deleted, not
\* yet deleted, a "no match" error, another error), of RemoveCRDs, and the
\* CheckFn of the descriptor: nil, DefaultFn, or the custom CheckFn with
\* the result of WaitForCustomResources; ops says whether newOperations
\* returns the operations.
OperationEnvs ==
    [ops : {"ok", "err"},
     crds : {"ok", "err"},
     render : {"ok", "err"},
     apply : {"consistent", "inconsistent", "err"},
     crs : {"ok", "err"},
     removeCRs : {"deleted", "pending", "noMatch", "err"},
     removeCRDs : {"ok", "err"},
     checkFn : {"nil", "DefaultFn", "ready", "notReady", "err"}]

\* Resource.DefaultFn and Resource.CheckFn: (ready, err)
CheckFn(env) ==
    IF env.checkFn \in {"nil", "DefaultFn"} THEN [ready |-> TRUE, err |-> FALSE]
    ELSE IF env.checkFn = "err" THEN [ready |-> FALSE, err |-> TRUE]
    ELSE [ready |-> env.checkFn = "ready", err |-> FALSE]

\* the custom states check that ends install and uninstall
customStatesCheck(env, steps) ==
    IF env.checkFn # "nil"
    THEN [steps |-> Append(steps, "CheckFn"), ready |-> CheckFn(env).ready,
          err |-> CheckFn(env).err]
    ELSE [steps |-> steps, ready |-> TRUE, err |-> FALSE]

\* an install that tests only the error of renderSrc.Install
install_IgnoresInconsistent(env) ==
    IF env.crds = "err"
    THEN [steps |-> <<"CheckCRDs">>, ready |-> FALSE, err |-> TRUE]
    ELSE IF env.render = "err"
    THEN [steps |-> <<"CheckCRDs", "getManifestForChartPath">>,
          ready |-> FALSE, err |-> TRUE]
    ELSE IF env.apply = "err"
    THEN [steps |-> <<"CheckCRDs", "getManifestForChartPath", "Install">>,
          ready |-> FALSE, err |-> TRUE]
    ELSE IF env.crs = "err"
    THEN [steps |-> <<"CheckCRDs", "getManifestForChartPath", "Install", "CheckCRs">>,
          ready |-> FALSE, err |-> TRUE]
    ELSE customStatesCheck(env,
             <<"CheckCRDs", "getManifestForChartPath", "Install", "CheckCRs">>)

\* operations.install: the calls made, in their order, and (ready, err)
install(env) ==
    IF env.crds = "err"
    THEN [steps |-> <<"CheckCRDs">>, ready |-> FALSE, err |-> TRUE]
    ELSE IF env.render = "err"
    THEN [steps |-> <<"CheckCRDs", "getManifestForChartPath">>,
          ready |-> FALSE, err |-> TRUE]
    ELSE IF env.apply # "consistent"
    THEN [steps |-> <<"CheckCRDs", "getManifestForChartPath", "Install">>,
          ready |-> FALSE, err |-> env.apply = "err"]
    ELSE IF env.crs = "err"
    THEN [steps |-> <<"CheckCRDs", "getManifestForChartPath", "Install", "CheckCRs">>,
          ready |-> FALSE, err |-> TRUE]
    ELSE customStatesCheck(env,
             <<"CheckCRDs", "getManifestForChartPath", "Install", "CheckCRs">>)

\* an uninstall that goes on whatever RemoveCRs reports without an error
uninstall_IgnoresPending(env) ==
    IF env.removeCRs = "err"
    THEN [steps |-> <<"RemoveCRs">>, ready |-> FALSE, err |-> TRUE]
    ELSE IF env.render = "err"
    THEN [steps |-> <<"RemoveCRs", "getManifestForChartPath">>,
          ready |-> FALSE, err |-> TRUE]
    ELSE IF env.apply # "consistent"
    THEN [steps |-> <<"RemoveCRs", "getManifestForChartPath", "Install">>,
          ready |-> FALSE, err |-> env.apply = "err"]
    ELSE IF env.removeCRDs = "err"
    THEN [steps |-> <<"RemoveCRs", "getManifestForChartPath", "Install", "RemoveCRDs">>,
          ready |-> FALSE, err |-> TRUE]
    ELSE customStatesCheck(env,
             <<"RemoveCRs", "getManifestForChartPath", "Install", "RemoveCRDs">>)

\* operations.uninstall: !meta.IsNoMatchError(err) && (err != nil || !deleted)
\* ends the call after RemoveCRs
uninstall(env) ==
    IF env.removeCRs \in {"pending", "err"}
    THEN [steps |-> <<"RemoveCRs">>, ready |-> FALSE, err |-> env.removeCRs = "err"]
    ELSE IF env.render = "err"
    THEN [steps |-> <<"RemoveCRs", "getManifestForChartPath">>,
          ready |-> FALSE, err |-> TRUE]
    ELSE IF env.apply # "consistent"
    THEN [steps |-> <<"RemoveCRs", "getManifestForChartPath", "Install">>,
          ready |-> FALSE, err |-> env.apply = "err"]
    ELSE IF env.removeCRDs = "err"
    THEN [steps |-> <<"RemoveCRs", "getManifestForChartPath", "Install", "RemoveCRDs">>,
          ready |-> FALSE, err |-> TRUE]
    ELSE customStatesCheck(env,
             <<"RemoveCRs", "getManifestForChartPath", "Install", "RemoveCRDs">>)

\* a call of InstallChart or UninstallChart that is about to be made
OperationInit ==
    /\ manifest \in { NewManifest(installs) : installs \in InstallChoices }
    /\ ControllerStart
    /\ CacheAtRest
    /\ DiskAtRest
    /\ AggregationAtRest
    /\ operation \in [pc : {"called"}, env : OperationEnvs]
    /\ ssa = NoSSA
    /\ pool = NewManifestWorkers(NumWorkers)
    /\ tar = NoTar

OperationDone(mode, result) ==
    /\ operation.pc = "called"
    /\ operation' = [pc |-> "returned", env |-> operation.env, mode |-> mode,
                     steps |-> result.steps, ready |-> result.ready,
                     err |-> result.err]
    /\ UNCHANGED <<manifest, reconciler, workers, collectors, cancelled, lastOp,
                   rendererCache, peer, calls, disk, extractors, rendering,
                   aggregation, ssa, pool, tar>>

\* newOperations returned an error: nothing is called
NoOperations == [steps |-> <<>>, ready |-> FALSE, err |-> TRUE]

InstallChart ==
    OperationDone(CreateMode, IF operation.env.ops = "err" THEN NoOperations
                              ELSE install(operation.env))

UninstallChart ==
    OperationDone(DeletionMode, IF operation.env.ops = "err" THEN NoOperations
                                ELSE uninstall(operation.env))

OperationNext == InstallChart \/ UninstallChart

OperationSpec == OperationInit /\ [][OperationNext]_vars

(***************************************************************************)
(* Server-side apply (concurrentDefaultSSA.Run)                            *)
(***************************************************************************)
\* what the Patch of an object answers
ApplyOutcomes == {"ok", "err"}

ResourceLists ==
    UNION { [1..n -> ApplyOutcomes] : n \in 0..MaxObjects }

\* a results channel without a buffer
ResultsCapacity_Unbuffered(resources) == 0

\* results := make(chan error, len(resources))
ResultsCapacity(resources) == Len(resources)

\* serverSideApplyResourceInfo: nil, or the error of the Patch of object i
serverSideApplyResourceInfo(resources, i) ==
    IF resources[i] = "ok" THEN <<>> ELSE <<i>>

\* types.NewMultiError: one error that holds every error of the list
NewMultiError(errs) == [errors |-> errs]

SSAInit ==
    /\ manifest \in { NewManifest(installs) : installs \in InstallChoices }
    /\ ControllerStart
    /\ CacheAtRest
    /\ DiskAtRest
    /\ AggregationAtRest
    /\ operation = NoOperation
    /\ ssa \in [pc : {"called"}, resources : ResourceLists]
    /\ pool = NewManifestWorkers(NumWorkers)
    /\ tar = NoTar

SSAUnchanged ==
    UNCHANGED <<manifest, reconciler, workers, collectors, cancelled, lastOp,
                rendererCache, peer, calls, disk, extractors, rendering,
                aggregation, operation, pool, tar>>

\* Run up to its receive loop: the channel is made and one goroutine per
\* object is started.  tasks[i] is the position of the goroutine of object
\* i, results the content of the channel, errs the errors received.
Run ==
    /\ ssa.pc = "called"
    /\ ssa' = [pc |-> "collecting", resources |-> ssa.resources,
               capacity |-> ResultsCapacity(ssa.resources),
               tasks |-> [i \in DOMAIN ssa.resources |-> "applying"],
               results |-> <<>>, received |-> 0, errs |-> <<>>]
    /\ SSAUnchanged

\* serverSideApply of object i: results <- c.serverSideApplyResourceInfo(...)
serverSideApply(i) ==
    /\ ssa.pc = "collecting"
    /\ i \in DOMAIN ssa.tasks
    /\ ssa.tasks[i] = "applying"
    /\ Len(ssa.results) < ssa.capacity
    /\ ssa' = [ssa EXCEPT
                 !.tasks[i] = "reported",
                 !.results = Append(@, serverSideApplyResourceInfo(ssa.resources, i))]
    /\ SSAUnchanged

\* one turn of the receive loop: err := <-results
RunReceive ==
    /\ ssa.pc = "collecting"
    /\ ssa.received < Len(ssa.resources)
    /\ ssa.results # <<>>
    /\ ssa' = [ssa EXCEPT
                 !.results = Tail(@),
                 !.received = @ + 1,
                 !.errs = IF Head(ssa.results) # <<>>
                          THEN Append(@, Head(ssa.results)) ELSE @]
    /\ SSAUnchanged

\* Run after its receive loop: nil, or the error made of errs
RunReturn ==
    /\ ssa.pc = "collecting"
    /\ ssa.received >= Len(ssa.resources)
    /\ ssa' = [pc |-> "returned", resources |-> ssa.resources,
               capacity |-> ssa.capacity, tasks |-> ssa.tasks,
               results |-> ssa.results, received |-> ssa.received,
               errs |-> ssa.errs,
               ret |-> IF ssa.errs # <<>> THEN NewMultiError(ssa.errs)
                       ELSE [errors |-> <<>>]]
    /\ SSAUnchanged

SSANext ==
    \/ Run
    \/ \E i \in 1..MaxObjects : serverSideApply(i)
    \/ RunReceive
    \/ RunReturn

SSASpec == SSAInit /\ [][SSANext]_vars

(***************************************************************************)
(* Paths of the entries of an archive (writeTarGzContent on Linux).  A     *)
(* path is the sequence of its characters.                                 *)
(***************************************************************************)
PathChars == {"a", ".", "/", "\\", ":"}

HeaderNames == UNION { [1..n -> PathChars] : n \in 0..MaxNameLen }

TypeReg == "0"
TypeSymlink == "2"
TypeDir == "5"
Typeflags == {TypeReg, TypeSymlink, TypeDir}

\* the install path of the ImageSpec, below the cache directory /r
CacheDir == <<"/", "r">>
InstallPath == <<"/", "r", "/", "i">>

Contains(s, ch) == \E i \in DOMAIN s : s[i] = ch

ReplaceAll(s, old, new) == [i \in DOMAIN s |-> IF s[i] = old THEN new ELSE s[i]]

Index(s, ch) ==
    IF Contains(s, ch)
    THEN CHOOSE i \in DOMAIN s : s[i] = ch /\ \A j \in 1..(i - 1) : s[j] # ch
    ELSE 0

LastIndex(s, ch) ==
    IF Contains(s, ch)
    THEN CHOOSE i \in DOMAIN s : s[i] = ch /\ \A j \in (i + 1)..Len(s) : s[j] # ch
    ELSE 0

\* strings.Split(s, sep) for a separator of one character
RECURSIVE Split(_, _)
Split(s, sep) ==
    IF ~Contains(s, sep)
    THEN <<s>>
    ELSE <<SubSeq(s, 1, Index(s, sep) - 1)>>
            \o Split(SubSeq(s, Index(s, sep) + 1, Len(s)), sep)

\* path.Split: the directory with its trailing slash, and the file
pathSplit(name) ==
    [dir |-> SubSeq(name, 1, LastIndex(name, "/")),
     file |-> SubSeq(name, LastIndex(name, "/") + 1, Len(name))]

IsAbs(p) == Len(p) > 0 /\ p[1] = "/"

DotDot == <<".", ".">>

\* the elements Clean keeps: empty and "." elements are dropped, ".." takes
\* the element before it away, stays in front of a relative path and is
\* dropped at the root
RECURSIVE CleanParts(_, _, _)
CleanParts(parts, out, rooted) ==
    IF parts = <<>>
    THEN out
    ELSE LET part == Head(parts)
             rest == Tail(parts)
         IN IF Len(part) = 0 \/ part = <<".">>
            THEN CleanParts(rest, out, rooted)
            ELSE IF part = DotDot
            THEN IF Len(out) > 0 /\ out[Len(out)] # DotDot
                 THEN CleanParts(rest, SubSeq(out, 1, Len(out) - 1), rooted)
                 ELSE IF rooted
                 THEN CleanParts(rest, out, rooted)
                 ELSE CleanParts(rest, Append(out, part), rooted)
            ELSE CleanParts(rest, Append(out, part), rooted)

RECURSIVE JoinParts(_)
JoinParts(parts) ==
    IF Len(parts) = 0
    THEN <<>>
    ELSE IF Len(parts) = 1
    THEN Head(parts)
    ELSE Head(parts) \o <<"/">> \o JoinParts(Tail(parts))

\* path.Clean and, the separator being '/', filepath.Clean
Clean(p) ==
    LET body == JoinParts(CleanParts(Split(p, "/"), <<>>, IsAbs(p)))
    IN IF IsAbs(p)
       THEN <<"/">> \o body
       ELSE IF Len(body) = 0 THEN <<".">> ELSE body

\* path.Join and filepath.Join of two elements: empty elements are ignored,
\* the result is cleaned
Join(a, b) ==
    IF Len(a) = 0 /\ Len(b) = 0
    THEN <<>>
    ELSE IF Len(a) = 0
    THEN Clean(b)
    ELSE IF Len(b) = 0
    THEN Clean(a)
    ELSE Clean(a \o <<"/">> \o b)

\* filepath.ToSlash replaces filepath.Separator, which is '/' here
Separator == "/"
ToSlash(p) == ReplaceAll(p, Separator, "/")

NoPathError == ""

CleanFilePathJoin_DotDotCleaned(root, dest) ==
    IF Contains(dest, ":")
    THEN [path |-> <<>>, err |-> "path contains ':', which is illegal"]
    ELSE IF IsAbs(ReplaceAll(dest, "\\", "/"))
    THEN [path |-> <<>>, err |-> "path is absolute, which is illegal"]
    ELSE [path |-> ToSlash(Join(root, Clean(ReplaceAll(dest, "\\", "/")))),
          err |-> NoPathError]

CleanFilePathJoin(root, dest) ==
    IF Contains(dest, ":")
    THEN [path |-> <<>>, err |-> "path contains ':', which is illegal"]
    ELSE LET slashed == ReplaceAll(dest, "\\", "/")
             parts == Split(slashed, "/")
         IN IF \E i \in DOMAIN parts : parts[i] = DotDot
            THEN [path |-> <<>>, err |-> "path contains '..', which is illegal"]
            ELSE IF IsAbs(slashed)
            THEN [path |-> <<>>, err |-> "path is absolute, which is illegal"]
            ELSE [path |-> ToSlash(Join(root, Clean(slashed))),
                  err |-> NoPathError]

\* The file system: the directories and the regular files that exist.  The
\* root and the cache directory exist before the extraction.
EmptyFS == [dirs |-> {<<"/">>, CacheDir}, files |-> {}]

\* a clean absolute path and the directories above it
Ancestors(p) ==
    { SubSeq(p, 1, i) : i \in { j \in DOMAIN p : j = Len(p) \/ p[j + 1] = "/" } }

Dir(p) ==
    IF LastIndex(p, "/") <= 1 THEN <<"/">> ELSE SubSeq(p, 1, LastIndex(p, "/") - 1)

\* os.MkdirAll: fails when an element of the path is a regular file (or
\* when the system refuses, ok = FALSE); otherwise the path and the missing
\* directories above it exist afterwards
MkdirAll(fs, p, ok) ==
    IF ~ok \/ \E q \in Ancestors(p) : q \in fs.files
    THEN [fs |-> fs, err |-> TRUE]
    ELSE [fs |-> [fs EXCEPT !.dirs = @ \cup Ancestors(p)], err |-> FALSE]

\* os.OpenFile(O_CREATE|O_RDWR): fails on a directory, and when the
\* directory of the file is missing (or when the system refuses);
\* otherwise the file exists afterwards
OpenFile(fs, p, ok) ==
    IF ~ok \/ p \in fs.dirs \/ Dir(p) \notin fs.dirs
    THEN [fs |-> fs, err |-> TRUE]
    ELSE [fs |-> [fs EXCEPT !.files = @ \cup {p}], err |-> FALSE]

\* handleExtractedHeaderFile with the paths it touches: a directory entry
\* makes destinationPath again, a regular file is created at
\* path.Join(destinationPath, file), any other type is an error
handleExtractedHeaderPaths(fs, typeflag, file, destinationPath, ok) ==
    IF typeflag = TypeDir
    THEN MkdirAll(fs, destinationPath, ok)
    ELSE IF typeflag = TypeReg
    THEN OpenFile(fs, Join(destinationPath, file), ok)
    ELSE [fs |-> fs, err |-> TRUE]

TarReturned(fs, err) == [tar EXCEPT !.pc = "returned", !.fs = fs, !.err = err]

TarUnchanged ==
    UNCHANGED <<manifest, reconciler, workers, collectors, cancelled, lastOp,
                rendererCache, peer, calls, disk, extractors, rendering,
                aggregation, operation, ssa, pool>>

\* writeTarGzContent up to its loop: os.MkdirAll(installPath)
writeTarGzContentMkdir(mkdirOK) ==
    /\ tar.pc = "called"
    /\ LET made == MkdirAll(tar.fs, InstallPath, mkdirOK)
       IN tar' = IF made.err
                 THEN TarReturned(made.fs, TRUE)
                 ELSE [tar EXCEPT !.pc = "reading", !.fs = made.fs]
    /\ TarUnchanged

\* tarReader.Next() returns io.EOF (the loop ends, nil is returned) or
\* another error (returned)
writeTarGzContentEnd(readOK) ==
    /\ tar.pc = "reading"
    /\ tar' = TarReturned(tar.fs, ~readOK)
    /\ TarUnchanged

\* one turn of the loop for the header tarReader.Next() returned; the system
\* may refuse the first call made to it (ok = FALSE).  The destination
\* handed to CleanFilePathJoin and what it returned are recorded.
writeTarGzContentHeader(name, typeflag, ok) ==
    /\ tar.pc = "reading"
    /\ tar.headers < MaxEntries
    /\ LET split == pathSplit(name)
           joined == CleanFilePathJoin(InstallPath, split.dir)
           made == MkdirAll(tar.fs, joined.path, ok)
           written == handleExtractedHeaderPaths(made.fs, typeflag, split.file,
                                                 joined.path, ok)
           seen == [tar EXCEPT !.headers = @ + 1, !.dest = split.dir,
                               !.joined = joined]
       IN tar' = IF joined.err # NoPathError
                 THEN [seen EXCEPT !.pc = "returned", !.err = TRUE]
                 ELSE IF made.err
                 THEN [seen EXCEPT !.pc = "returned", !.err = TRUE]
                 ELSE IF written.err
                 THEN [seen EXCEPT !.pc = "returned", !.err = TRUE,
                                   !.fs = written.fs]
                 ELSE [seen EXCEPT !.fs = written.fs]
    /\ TarUnchanged

TarInit ==
    /\ manifest = NotFound
    /\ ControllerStart
    /\ CacheAtRest
    /\ DiskAtRest
    /\ AggregationAtRest
    /\ operation = NoOperation
    /\ ssa = NoSSA
    /\ pool = NewManifestWorkers(NumWorkers)
    /\ tar = [pc |-> "called", fs |-> EmptyFS, headers |-> 0, dest |-> <<>>,
              joined |-> [path |-> <<>>, err |-> NoPathError], err |-> FALSE]

TarNext ==
    \/ \E mkdirOK \in BOOLEAN : writeTarGzContentMkdir(mkdirOK)
    \/ \E readOK \in BOOLEAN : writeTarGzContentEnd(readOK)
    \/ \E name \in HeaderNames, typeflag \in Typeflags, ok \in BOOLEAN :
          writeTarGzContentHeader(name, typeflag, ok)

TarSpec == TarInit /\ [][TarNext]_vars

(***************************************************************************)
(* The size of the ManifestWorkerPool                                      *)
(***************************************************************************)
PoolSizes == 1..MaxPoolSize

\* the sizes SetWorkerPoolSize is called with
NewSizes == (0 - MaxPoolSize)..MaxPoolSize

GetWorkerPoolSize == pool.size

PoolUnchanged ==
    UNCHANGED <<manifest, reconciler, workers, collectors, cancelled, lastOp,
                rendererCache, peer, calls, disk, extractors, rendering,
                aggregation, operation, ssa, tar>>

\* SetWorkerPoolSize: a positive newSize stores initialSize, any other
\* newSize is stored as it is
SetWorkerPoolSize(newSize) ==
    /\ pool.calls < MaxPoolCalls
    /\ pool' = [pool EXCEPT
          !.size = IF newSize > 0 THEN pool.initialSize ELSE newSize,
          !.calls = @ + 1,
          !.newSize = newSize]
    /\ PoolUnchanged

\* the loop of StartWorkers: one goroutine for worker = 1 .. GetWorkerPoolSize()
StartWorkersLoop ==
    /\ pool.pc = "created"
    /\ pool' = [pool EXCEPT
          !.pc = "started",
          !.started = Cardinality({ worker \in 1..MaxPoolSize :
                                      worker <= GetWorkerPoolSize })]
    /\ PoolUnchanged

\* a request is sent on the unbuffered DeployChan
SendOnDeployChan ==
    /\ pool.pc = "started"
    /\ pool' = [pool EXCEPT !.pc = "sending"]
    /\ PoolUnchanged

\* a goroutine of the pool receives it
ReceiveFromDeployChan ==
    /\ pool.pc = "sending"
    /\ pool.started >= 1
    /\ pool' = [pool EXCEPT !.pc = "received"]
    /\ PoolUnchanged

PoolInit ==
    /\ manifest = NotFound
    /\ ControllerStart
    /\ CacheAtRest
    /\ DiskAtRest
    /\ AggregationAtRest
    /\ operation = NoOperation
    /\ ssa = NoSSA
    /\ tar = NoTar
    /\ pool \in { NewManifestWorkers(workersConcurrentManifests) :
                    workersConcurrentManifests \in PoolSizes }

PoolNext ==
    \/ \E newSize \in NewSizes : SetWorkerPoolSize(newSize)
    \/ StartWorkersLoop
    \/ SendOnDeployChan
    \/ ReceiveFromDeployChan

PoolSpec == PoolInit /\ [][PoolNext]_vars

(***************************************************************************)
(* Properties                                                              *)
(***************************************************************************)
StatusWriteOps ==
    {"reconcile:deleting", "reconcile:initial", "reconcile:error",
     "reconcile:generation", "reconcile:notReady", "reconcile:verifyError",
     "collector:status", "collector:removeFailedStatus"}

\* the steps of Reconcile, and those of them that ran the consistency check
ReconcileOps ==
    {"reconcile:deleting", "reconcile:addFinalizer", "reconcile:initial",
     "reconcile:error", "reconcile:generation", "reconcile:enqueue",
     "reconcile:prepareFailed", "reconcile:nothingToCheck",
     "reconcile:consistent", "reconcile:notReady", "reconcile:verifyError"}

ConsistencyCheckOps ==
    {"reconcile:consistent", "reconcile:notReady", "reconcile:verifyError"}

C2_RemovedOnlyAfterUninstall ==
    lastOp.op = "collector:finalizerRemoved" =>
        /\ lastOp.responses = lastOp.chartCount
        /\ ~lastOp.anyErr /\ ~lastOp.anyNotReady
        /\ lastOp.chartCount > 0 => lastOp.mode = DeletionMode

\* C3: a Manifest with a non-empty state and no deletionTimestamp carries the
\* finalizer, and after a collector has written for a deleting Manifest whose
\* round had no error and nothing still processing, the finalizer is absent.
C3_FinalizerPresent ==
    /\ (manifest.exists /\ manifest.state # ManifestStateInitial
           /\ ~manifest.deletionTimestamp) => manifest.finalizer
    /\ (lastOp.op \in {"collector:status", "collector:finalizerRemoved"}
           /\ lastOp.deletion /\ ~lastOp.anyErr /\ ~lastOp.anyNotReady)
          => ~manifest.finalizer

C3_Witness ==
    /\ lastOp.op = "reconcile:initial"
    /\ manifest.state = ManifestStateProcessing
    /\ ~manifest.deletionTimestamp
    /\ manifest.finalizer

\* C4 as stated: while deletionTimestamp is set every status write sets the
\* state Deleting.
C4_OnlyDeletingWhileDeleted ==
    (lastOp.op \in StatusWriteOps /\ lastOp.deletion) =>
        manifest.state = ManifestStateDeleting

\* C4 amended: while deletionTimestamp is set every status write sets the
\* state Deleting, except that a collector writes Error when a response of
\* its round carried an error or its removal of the finalizer failed; no
\* write sets Processing or Ready.
C4_DeletingOrCollectorError ==
    (lastOp.op \in StatusWriteOps /\ lastOp.deletion) =>
        \/ manifest.state = ManifestStateDeleting
        \/ /\ manifest.state = ManifestStateError
           /\ \/ lastOp.op = "collector:status" /\ lastOp.anyErr
              \/ lastOp.op = "collector:removeFailedStatus"

\* a round that is still processing writes Deleting for a deleted Manifest
C4_Witness ==
    /\ lastOp.op = "collector:status"
    /\ lastOp.deletion /\ lastOp.anyNotReady /\ ~lastOp.anyErr
    /\ manifest.state = ManifestStateDeleting

\* C5: after every status write status.observedGeneration equals the
\* generation of the object written.
C5_ObservedGeneration ==
    lastOp.op \in StatusWriteOps =>
        manifest.observedGeneration = manifest.generation

\* a status write after the user changed the spec
C5_Witness ==
    /\ lastOp.op \in StatusWriteOps
    /\ manifest.generation = 2
    /\ manifest.observedGeneration = 2

C7_PrepareFailureSetsError ==
    (lastOp.op = "reconcile:prepareFailed" /\ lastOp.prior = ManifestStateProcessing)
        => manifest.state = ManifestStateError

\* C8: PreparePhase returns one job per Install, the i-th carrying the chart
\* info of the i-th Install.
C8_JobPerInstall ==
    lastOp.op = "reconcile:enqueue" =>
        /\ Len(reconciler.pending) = Len(manifest.installs)
        /\ \A i \in 1..Len(manifest.installs) :
              reconciler.pending[i].chart =
                  getChartInfoForInstall(manifest.installs[i]).ChartName

\* C9: a Manifest that is not being deleted eventually is Ready.
C9_EventuallyReady ==
    (manifest.exists /\ ~manifest.deletionTimestamp)
        ~> (manifest.state = ManifestStateReady \/ manifest.deletionTimestamp
               \/ ~manifest.exists)

C9_Witness ==
    /\ lastOp.op = "collector:status"
    /\ lastOp.chartCount = 2
    /\ manifest.state = ManifestStateReady
    /\ ~manifest.deletionTimestamp

\* C10: once deletionTimestamp is set the Manifest is eventually not found,
\* and the finalizer goes only after the state became Deleting and the
\* round's Delete-mode jobs ran.
C10_DeletedAfterUninstall ==
    /\ manifest.deletionTimestamp ~> ~manifest.exists
    /\ [](lastOp.op = "collector:finalizerRemoved" =>
            /\ lastOp.prior = ManifestStateDeleting
            /\ lastOp.mode = DeletionMode)

C21_CheckErrorMeansError ==
    lastOp.op \in {"reconcile:notReady", "reconcile:verifyError"} =>
        /\ lastOp.anyErr => manifest.state = ManifestStateError
        /\ ~lastOp.anyErr => manifest.state = ManifestStateProcessing

C23_WorkersExit ==
    cancelled ~> \A w \in Workers : workers[w].pc = "exited"

\* C24: DeployChan is unbuffered: a send of the reconciler completes only
\* in a step in which one idle worker receives the request sent, the other
\* workers keeping what they hold; every request received and not yet
\* answered is therefore held by a worker of its own, at most NumWorkers
\* of them at any time.
C24_SendMeetsReceive ==
    [][reconciler.pc = "sending" /\ reconciler' # reconciler =>
         \E w \in Workers :
            /\ workers[w].pc = "idle"
            /\ workers'[w].pc = "sending"
            /\ workers'[w].round = Head(reconciler.pending).round
            /\ workers'[w].response.chart = Head(reconciler.pending).chart
            /\ \A v \in Workers \ {w} : workers'[v] = workers[v]]_vars

\* the producer waits with a request while every worker holds one
C24_Witness ==
    /\ reconciler.pc = "sending"
    /\ \A w \in Workers : workers[w].pc = "sending"

\* C25: every request a worker received is answered by one response on the
\* ResponseChan the request carried: while a round is in flight its
\* requests not yet received, the responses held by workers for it and the
\* responses its collector has read add up to the number of requests
\* prepared for it, and a collector reads a response only from a worker
\* that holds one for its round, whatever other rounds are in flight.
C25_OneResponsePerRequest ==
    /\ [](\A c \in LiveRounds :
             LET held == Cardinality({w \in Workers : /\ workers[w].pc = "sending"
                                                      /\ workers[w].round = c})
                 pending == IF reconciler.pc = "sending" /\ reconciler.round = c
                            THEN Len(reconciler.pending) ELSE 0
                 requests == IF collectors[c].prepared
                             THEN collectors[c].chartCount ELSE 0
             IN /\ collectors[c].pc = "reading" =>
                      collectors[c].responses + held + pending = requests
                /\ collectors[c].pc = "free" => held + pending = 0)
    /\ [][\A c \in LiveRounds :
             collectors'[c].responses > collectors[c].responses =>
                \E w \in Workers :
                   /\ workers[w].pc = "sending"
                   /\ workers[w].round = c
                   /\ workers'[w] = IdleWorker
                   /\ collectors'[c].responses = collectors[c].responses + 1]_vars

\* two rounds are in flight, a worker holds a response for one of them
\* and the collector of the other one is waiting for responses
C25_Witness ==
    \E c \in LiveRounds, d \in LiveRounds :
       /\ c # d
       /\ collectors[c].pc = "reading"
       /\ collectors[c].prepared
       /\ ~LoopDone(collectors[c])
       /\ collectors[d].pc = "reading"
       /\ \E w \in Workers : workers[w].pc = "sending" /\ workers[w].round = d

\* C26: a collector that writes Ready aggregated responses of jobs prepared
\* from the spec of the generation it records as observedGeneration, so
\* that a spec change made while the round was in flight is not covered by
\* a Ready with generation = observedGeneration.
C26_ReadyOfObservedGeneration ==
    /\ lastOp.op = "collector:status"
    /\ lastOp.prepared
    /\ lastOp.chartCount > 0
    /\ manifest.state = ManifestStateReady
    => lastOp.generation = manifest.observedGeneration

\* C27: the collector of a round whose PreparePhase returned an error
\* neither writes Ready nor removes the finalizer, also when the Manifest
\* has no Installs and the collector has nothing to wait for.
C27_FailedRoundWritesNothing ==
    ~lastOp.prepared =>
        /\ lastOp.op # "collector:finalizerRemoved"
        /\ lastOp.op = "collector:status" => manifest.state # ManifestStateReady

\* C28: a reconcile that reads a Manifest with deletionTimestamp set and a
\* state other than Deleting writes the status with state Deleting and does
\* nothing else: the finalizer stays, no collector is started and no
\* request is enqueued.
C28_OnlyDeletingWrite ==
    [][(/\ lastOp'.op \in ReconcileOps
        /\ manifest.deletionTimestamp
        /\ manifest.state # ManifestStateDeleting)
       => /\ lastOp'.op = "reconcile:deleting"
          /\ manifest' = [manifest EXCEPT !.state = ManifestStateDeleting,
                                          !.observedGeneration = manifest.generation]
          /\ manifest'.finalizer = manifest.finalizer
          /\ UNCHANGED <<reconciler, workers, collectors>>]_vars

\* the user deleted a Manifest while a round was in flight for it, and the
\* reconcile has written Deleting next to that round
C28_Witness ==
    /\ lastOp.op = "reconcile:deleting"
    /\ lastOp.prior = ManifestStateProcessing
    /\ manifest.state = ManifestStateDeleting
    /\ manifest.finalizer

\* C29: for a Manifest with the finalizer and without deletionTimestamp, a
\* reconcile in the empty state, in state Error, or in state Ready with
\* generation # observedGeneration writes the status with state Processing
\* and does nothing else: no collector is started, no request is enqueued
\* and no consistency check is run.
C29_BackToProcessing ==
    [][(/\ lastOp'.op \in ReconcileOps
        /\ manifest.finalizer
        /\ ~manifest.deletionTimestamp
        /\ \/ manifest.state \in {ManifestStateInitial, ManifestStateError}
           \/ /\ manifest.state = ManifestStateReady
              /\ manifest.generation # manifest.observedGeneration)
       => /\ lastOp'.op \in {"reconcile:initial", "reconcile:error",
                              "reconcile:generation"}
          /\ lastOp'.op \notin ConsistencyCheckOps
          /\ manifest' = [manifest EXCEPT !.state = ManifestStateProcessing,
                                          !.observedGeneration = manifest.generation]
          /\ UNCHANGED <<reconciler, workers, collectors, rendererCache>>]_vars

\* a Ready Manifest whose spec was changed has been moved to Processing
C29_Witness ==
    /\ lastOp.op = "reconcile:generation"
    /\ lastOp.prior = ManifestStateReady
    /\ manifest.state = ManifestStateProcessing
    /\ manifest.generation = manifest.observedGeneration
    /\ reconciler.pc = "idle"

\* C30: the reconciler starts sending requests only in a reconcile of a
\* Manifest with the finalizer in state Processing or Deleting whose
\* PreparePhase succeeded; the requests are as many as the Installs, all in
\* Create mode for Processing and in Delete mode for Deleting, and all carry
\* the response channel made for the round, which no round in flight and no
\* worker uses; apart from that the requests to send only get fewer.
C30_EnqueueOnlyInRound ==
    [][reconciler'.pc = "sending" /\ reconciler' # reconciler =>
         IF reconciler.pc = "sending"
         THEN reconciler'.pending = Tail(reconciler.pending)
         ELSE LET c == reconciler'.round
                  requests == reconciler'.pending
              IN /\ lastOp'.op = "reconcile:enqueue"
                 /\ lastOp'.prepared
                 /\ manifest.finalizer
                 /\ manifest.state \in {ManifestStateProcessing, ManifestStateDeleting}
                 /\ Len(requests) = Len(manifest.installs)
                 /\ \A i \in 1..Len(requests) :
                       /\ requests[i].mode =
                             (IF manifest.state = ManifestStateProcessing
                              THEN CreateMode ELSE DeletionMode)
                       /\ requests[i].round = c
                 /\ collectors[c].pc = "free"
                 /\ collectors'[c].pc = "reading"
                 /\ collectors'[c].chartCount = Len(requests)
                 /\ \A w \in Workers : workers[w].round # c]_vars

\* two Delete-mode requests are enqueued on the channel of a new round while
\* another round is in flight
C30_Witness ==
    /\ lastOp.op = "reconcile:enqueue"
    /\ reconciler.pc = "sending"
    /\ Len(reconciler.pending) = 2
    /\ reconciler.mode = DeletionMode
    /\ \E d \in LiveRounds \ {reconciler.round} : collectors[d].pc = "reading"

\* C31: when the update that removes the finalizer fails after a round
\* without error and without a not-ready response on a Manifest being
\* deleted, the status the collector writes has state Error and the stored
\* object keeps its finalizer; when the update succeeds the collector
\* changes nothing but the finalizer.
C31_RemovalFailureEscalates ==
    [][/\ lastOp'.op = "collector:removeFailedStatus" =>
            /\ ~lastOp'.anyErr /\ ~lastOp'.anyNotReady
            /\ manifest.deletionTimestamp /\ manifest.finalizer
            /\ manifest' = [manifest EXCEPT
                               !.state = ManifestStateError,
                               !.observedGeneration = manifest.generation]
       /\ lastOp'.op = "collector:finalizerRemoved" =>
            manifest' = Stored([manifest EXCEPT !.finalizer = FALSE])]_vars

\* the removal failed after a Delete-mode round in which every uninstall
\* had succeeded
C31_Witness ==
    /\ lastOp.op = "collector:removeFailedStatus"
    /\ lastOp.mode = DeletionMode
    /\ lastOp.chartCount > 0
    /\ manifest.state = ManifestStateError
    /\ manifest.finalizer

\* C32: every collector spawned for a round eventually finishes while the
\* context is live, also the collector of a round whose PreparePhase
\* returned an error after the collector was spawned.
C32_CollectorsFinish ==
    \A c \in Rounds : collectors[c].pc = "reading" ~> collectors[c].pc = "free"

C34_SendNeverBlocks ==
    \A w \in Workers : workers[w].pc = "sending" =>
        /\ collectors[workers[w].round].pc = "reading"
        /\ ~LoopDone(collectors[workers[w].round])

\* C35: a returned install has made its calls in the order CheckCRDs,
\* getManifestForChartPath, Install, CheckCRs, CheckFn; CheckCRs was called
\* only after Install reported consistent without error; every call but
\* the last succeeded, and when the last one failed or reported not ready
\* the result has ready=false.
C35_CreateOrder ==
    operation.pc = "returned" /\ operation.mode = CreateMode =>
        LET order == <<"CheckCRDs", "getManifestForChartPath", "Install",
                       "CheckCRs", "CheckFn">>
            env == operation.env
            good == [step \in {"CheckCRDs", "getManifestForChartPath", "Install",
                               "CheckCRs", "CheckFn"} |->
                        CASE step = "CheckCRDs" -> env.crds = "ok"
                          [] step = "getManifestForChartPath" -> env.render = "ok"
                          [] step = "Install" -> env.apply = "consistent"
                          [] step = "CheckCRs" -> env.crs = "ok"
                          [] OTHER -> env.checkFn \in {"DefaultFn", "ready"}]
            steps == operation.steps
        IN /\ Len(steps) \in 0..5
           /\ \A i \in 1..Len(steps) : steps[i] = order[i]
           /\ \A i \in 1..(Len(steps) - 1) : good[steps[i]]
           /\ operation.ready <=> /\ Len(steps) >= (IF env.checkFn = "nil" THEN 4 ELSE 5)
                                  /\ good[steps[Len(steps)]]
           /\ operation.err => ~operation.ready

\* the apply reported not consistent: the call returned (false, nil) and
\* CheckCRs was not called
C35_Witness ==
    /\ operation.pc = "returned"
    /\ operation.mode = CreateMode
    /\ operation.env.apply = "inconsistent"
    /\ operation.steps = <<"CheckCRDs", "getManifestForChartPath", "Install">>
    /\ ~operation.ready /\ ~operation.err

\* C36: a returned uninstall has made its calls in the order RemoveCRs,
\* getManifestForChartPath, Install, RemoveCRDs, CheckFn; it went past
\* RemoveCRs only when that reported deleted or a "no match" error, and
\* returned (false, nil) with no other call when the custom resources were
\* not yet deleted; RemoveCRDs was called only after Install reported
\* consistent without error.
C36_DeleteOrder ==
    operation.pc = "returned" /\ operation.mode = DeletionMode =>
        LET order == <<"RemoveCRs", "getManifestForChartPath", "Install",
                       "RemoveCRDs", "CheckFn">>
            env == operation.env
            steps == operation.steps
        IN /\ Len(steps) \in 0..5
           /\ \A i \in 1..Len(steps) : steps[i] = order[i]
           /\ Len(steps) > 1 => env.removeCRs \in {"deleted", "noMatch"}
           /\ env.removeCRs = "pending" /\ env.ops = "ok" =>
                 steps = <<"RemoveCRs">> /\ ~operation.ready /\ ~operation.err
           /\ Len(steps) > 3 => env.render = "ok" /\ env.apply = "consistent"

\* RemoveCRs failed with "no match" and the call went on to remove the CRDs
C36_Witness ==
    /\ operation.pc = "returned"
    /\ operation.mode = DeletionMode
    /\ operation.env.removeCRs = "noMatch"
    /\ Len(operation.steps) > 3
    /\ operation.steps[4] = "RemoveCRDs"

\* C37: Run starts one task per object; it returns only after it has
\* received as many results as there are objects, every task having
\* reported; it returns nil exactly when every apply succeeded, otherwise
\* one error holding the failure of every object that failed and nothing
\* else; the channel takes the result of every task that is ready to
\* report, so that no task waits.
C37_RunCollectsAll ==
    /\ ssa.pc \in {"collecting", "returned"} =>
          /\ DOMAIN ssa.tasks = DOMAIN ssa.resources
          /\ Len(ssa.results) <= ssa.capacity
          /\ \A i \in DOMAIN ssa.tasks :
                ssa.tasks[i] = "applying" => Len(ssa.results) < ssa.capacity
    /\ ssa.pc = "returned" =>
          LET failed == {i \in DOMAIN ssa.resources : ssa.resources[i] = "err"}
          IN /\ ssa.received = Len(ssa.resources)
             /\ \A i \in DOMAIN ssa.tasks : ssa.tasks[i] = "reported"
             /\ ssa.ret.errors = <<>> <=> failed = {}
             /\ Len(ssa.ret.errors) = Cardinality(failed)
             /\ {ssa.ret.errors[k][1] : k \in DOMAIN ssa.ret.errors} = failed

\* Run returned the error of two failed applies out of three
C37_Witness ==
    /\ ssa.pc = "returned"
    /\ Len(ssa.resources) = 3
    /\ Len(ssa.ret.errors) = 2

\* C38: no entry of an archive is written outside the install directory:
\* CleanFilePathJoin returns an error for a destination that contains ':',
\* that has a '..' element once its backslashes are slashes, or that is
\* absolute then, otherwise it returns a path under its root; and every
\* directory and file the extraction has made lies under the install path.
UnderRoot(root, p) ==
    \/ p = root
    \/ Len(p) > Len(root) /\ SubSeq(p, 1, Len(root) + 1) = root \o <<"/">>

C38_NothingOutsideInstallPath ==
    /\ \A p \in (tar.fs.dirs \cup tar.fs.files) \ EmptyFS.dirs :
          UnderRoot(InstallPath, p)
    /\ tar.pc # "called" /\ tar.headers > 0 =>
          LET dest == tar.dest
              slashed == ReplaceAll(dest, "\\", "/")
              illegal == \/ Contains(dest, ":")
                         \/ \E i \in DOMAIN Split(slashed, "/") :
                               Split(slashed, "/")[i] = DotDot
                         \/ IsAbs(slashed)
          IN /\ illegal <=> tar.joined.err # NoPathError
             /\ illegal => tar.pc = "returned" /\ tar.err
             /\ ~illegal => UnderRoot(InstallPath, tar.joined.path)

\* an archive whose second entry is a regular file in a directory of its own
\* has been written: both the directory and the file exist
C38_Witness ==
    /\ tar.pc = "reading"
    /\ tar.headers = 2
    /\ tar.joined.path = InstallPath \o <<"/", "a">>
    /\ InstallPath \o <<"/", "a", "/", "a">> \in tar.fs.files

\* C39: status.conditions never holds two conditions of type Ready with the
\* same reason; and a write of the conditions of a round keeps every
\* condition at its place with its type and reason, leaves the conditions
\* of the reasons it was not called for as they are, and gives the
\* condition of every reason it was called for the status and the message
\* of a call for that reason and the time of the write.
WrittenReasons(responses) ==
    { responses[i].ChartName : i \in 1..Len(responses) } \cup {<<0, ManifestKind>>}

ResponseConditionStatuses(responses, reason) ==
    { IF responses[i].Err # "" THEN ConditionStatusFalse
      ELSE IF ~responses[i].Ready THEN ConditionStatusUnknown
      ELSE ConditionStatusTrue :
        i \in { j \in 1..Len(responses) : responses[j].ChartName = reason } }

C39_OneReadyConditionPerReason ==
    /\ [](\A i, j \in 1..Len(aggregation.conditions) :
            /\ aggregation.conditions[i].Type = ConditionTypeReady
            /\ aggregation.conditions[j].Type = ConditionTypeReady
            /\ aggregation.conditions[i].Reason = aggregation.conditions[j].Reason
            => i = j)
    /\ [][aggregation'.clock # aggregation.clock =>
            LET old == aggregation.conditions
                new == aggregation'.conditions
                written == WrittenReasons(aggregation.responses)
            IN /\ Len(new) >= Len(old)
               /\ \A k \in 1..Len(old) :
                    /\ new[k].Type = old[k].Type
                    /\ new[k].Reason = old[k].Reason
                    /\ old[k].Reason \notin written => new[k] = old[k]
               /\ \A k \in 1..Len(new) :
                    new[k].Reason \in written =>
                       /\ new[k].LastTransitionTime = aggregation'.clock
                       /\ new[k].Reason # <<0, ManifestKind>> =>
                             new[k].Status \in ResponseConditionStatuses(
                                                  aggregation.responses, new[k].Reason)
               /\ \A reason \in written :
                    \E k \in 1..Len(new) : new[k].Reason = reason]_vars

\* the second write has updated the condition of the Manifest in its place,
\* between a condition the write was not called for, which keeps the time
\* of the first write, and a condition the write has appended
C39_Witness ==
    /\ aggregation.pc = "written"
    /\ aggregation.clock = 2
    /\ Len(aggregation.conditions) = 3
    /\ aggregation.conditions[1].LastTransitionTime = 1
    /\ aggregation.conditions[1].Status = ConditionStatusTrue
    /\ aggregation.conditions[2].Reason = <<0, ManifestKind>>
    /\ aggregation.conditions[2].LastTransitionTime = 2
    /\ aggregation.conditions[2].Status = ConditionStatusFalse
    /\ aggregation.conditions[3].LastTransitionTime = 2

\* C40: the size of a pool created with a positive size is at least 1 after
\* any calls of SetWorkerPoolSize, and is newSize after a call with a
\* positive newSize; so StartWorkers starts at least one goroutine and a
\* request that is being sent has a goroutine to receive it.
C40_PoolSizeAtLeastOne ==
    /\ GetWorkerPoolSize >= 1
    /\ pool.calls > 0 /\ pool.newSize > 0 => GetWorkerPoolSize = pool.newSize
    /\ pool.pc # "created" => pool.started >= 1

C12_EmptyRemoteReady ==
    /\ (manifest.exists /\ manifest.cacheKey # "" /\ manifest.installs = <<>>
          /\ ~manifest.deletionTimestamp)
          ~> (manifest.state = ManifestStateReady \/ manifest.deletionTimestamp
                \/ ~manifest.exists)
    /\ peer.exists ~> peer.state = ManifestStateReady
    /\ []((manifest.exists /\ manifest.cacheKey # "" /\ manifest.installs = <<>>)
            => GetProcessor(rendererCache, OwnerKey(manifest.cacheKey)) = NoRenderer)

\* C13: after a completed call of a run of sequential calls with one and the
\* same labelled resource, flags and cache, the processor was stored once and
\* the fingerprint once, GetProcessor(owner) is a renderer and
\* GetConfig(resource) is the hash of the flags.
C13_StoredOnce ==
    \A c \in Callers :
        LET call == calls.of[c]
        IN (/\ call.pc = "done"
            /\ calls.uniform /\ calls.sequential
            /\ call.withCache /\ call.resource.cacheKey # "")
           => /\ calls.setProcessorCount = 1
              /\ calls.setConfigCount = 1
              /\ GetProcessor(rendererCache, discoverCacheKey(call.resource))
                    # NoRenderer
              /\ GetConfig(rendererCache, ResourceKey(call.resource.name))
                    = CalculateHash(call.flags)

\* C14: completed calls with a cache and the same cache key hold one and the
\* same renderer.
C14_OneRenderer ==
    \A c, d \in Callers :
        LET one == calls.of[c]
            other == calls.of[d]
        IN (/\ one.pc = "done" /\ other.pc = "done"
            /\ UsesCache(one.resource, one.withCache)
            /\ UsesCache(other.resource, other.withCache)
            /\ discoverCacheKey(one.resource) = discoverCacheKey(other.resource))
           => one.renderSrc = other.renderSrc

\* C15: a call reads or writes the cache only if it was given a cache and a
\* base resource with a non-empty label; as long as no such call was made
\* nothing is stored; a call without cache or label that completes holds a
\* renderer of its own.
C15_CacheOnlyWithKey ==
    /\ \A c \in Callers :
          LET call == calls.of[c]
              keyed == call.withCache /\ call.resource.cacheKey # ""
          IN /\ call.touched => keyed
             /\ (call.pc = "done" /\ ~keyed) => call.renderSrc = call.nr
    /\ ~calls.keyed =>
          /\ rendererCache = EmptyCache
          /\ calls.setProcessorCount = 0
          /\ calls.setConfigCount = 0

C15_Witness ==
    /\ calls.started = MaxCalls
    /\ ~calls.keyed
    /\ \E c, d \in Callers :
          /\ c # d
          /\ calls.of[c].pc = "done" /\ calls.of[d].pc = "done"
          /\ ~calls.of[c].withCache
          /\ calls.of[c].resource.cacheKey # ""
          /\ calls.of[d].resource.cacheKey # ""

\* C16: no call returns the existing directory of an ImageSpec while another
\* extractor is still writing entries into it.
C16_HitSeesComplete ==
    \A e \in Extractors :
        extractors[e].result = "hit" => ~extractors[e].hitWhileWriting

\* C17: when a call has failed and no extractor is writing the ImageSpec, the
\* directory of the ImageSpec does not exist unless it holds every entry.
C17_NoPartialDir ==
    \A e \in Extractors :
        LET image == extractors[e].image
        IN (/\ extractors[e].pc = "idle"
            /\ extractors[e].result \in
                  {"pullFailed", "mkdirFailed", "readFailed", "writeFailed"}
            /\ ~Writing(image))
           => \/ ~disk.charts[image].exists
              \/ disk.charts[image].entries = Entries

\* C18: after a call that rendered the manifest: without chart path nothing
\* was written and the manifest is returned; if the write ended with a
\* permission error the manifest is returned without error and the file
\* system is as before; if it ended with another error the call failed; if
\* it succeeded the manifest is returned and persisted.
C18_PermissionErrorTolerated ==
    rendering.rendered =>
        LET persisted == disk.rendered[rendering.chartPath]
        IN /\ rendering.chartPath = "" =>
                /\ ~rendering.persistAttempted
                /\ rendering.err = "" /\ rendering.manifest = rendering.raw
                /\ persisted = rendering.persistedBefore
           /\ (rendering.chartPath # "" /\ rendering.write = "permission") =>
                /\ rendering.err = "" /\ rendering.manifest = rendering.raw
                /\ persisted = rendering.persistedBefore
           /\ (rendering.chartPath # "" /\ rendering.write = "other") =>
                rendering.err # ""
           /\ (rendering.chartPath # "" /\ rendering.write = "ok") =>
                /\ rendering.err = "" /\ rendering.manifest = rendering.raw
                /\ persisted

C18_Witness ==
    /\ rendering.rendered
    /\ rendering.chartPath # "" /\ rendering.write = "permission"
    /\ rendering.persistAttempted
    /\ rendering.err = "" /\ rendering.manifest = "manifest"
    /\ ~disk.rendered[rendering.chartPath]

\* C19: in the status written by a round there is for every Install of the
\* Manifest a Ready condition whose reason is the name of the Install.
C19_ReasonIsInstallName ==
    aggregation.pc = "written" =>
        \A i \in 1..Len(aggregation.installs) :
            \E k \in 1..Len(aggregation.conditions) :
                /\ aggregation.conditions[k].Type = ConditionTypeReady
                /\ aggregation.conditions[k].Reason = <<aggregation.installs[i].name>>

\* C20: in the status written by a round, the error of every response of
\* the round is a part of the message of the condition of its chart.
C20_ErrorInMessage ==
    aggregation.pc = "written" =>
        \A i \in 1..Len(aggregation.responses) :
            LET response == aggregation.responses[i]
            IN response.Err # "" =>
                 \E k \in 1..Len(aggregation.conditions) :
                     LET condition == aggregation.conditions[k]
                     IN /\ condition.Type = ConditionTypeReady
                        /\ condition.Reason = response.ChartName
                        /\ \E part \in 1..Len(condition.Message) :
                              condition.Message[part] = response.Err

C12_Witness ==
    /\ manifest.remote /\ manifest.cacheKey = "kyma-1" /\ manifest.installs = <<>>
    /\ manifest.state = ManifestStateReady
    /\ peer.state = ManifestStateReady
    /\ GetProcessor(rendererCache, OwnerKey("kyma-1")) = NoRenderer

====
